---- MODULE Spec2Model ----
(***************************************************************************)
(* A model of gosh, a command-line HTTP client: the template resolver      *)
(* (request.Template), the argument parser (cli.Parser), the request       *)
(* builder (request.Builder with auth.AuthPreset.Apply), the orchestrator  *)
(* (app.App), the executor (request.Executor), the saved-call store        *)
(* (storage.Manager), the auth preset manager (auth.Manager) and the       *)
(* workspace detection (config.findWorkspaceRoot).                         *)
(*                                                                         *)
(* Go strings are modelled as sequences of one-character strings, so that  *)
(* prefix tests, splitting, regular-expression scans and replacement are   *)
(* computed character by character as the library functions compute them.  *)
(* Go maps are TLA+ functions whose DOMAIN is the key set.                 *)
(***************************************************************************)
EXTENDS Integers, Sequences, FiniteSets, TLC

VARIABLES
    \* ---- request.Template and the locals of Template.Resolve
    tText,        \* Template.text
    tPathVars,    \* Template.pathVars
    tEnvVars,     \* Template.envVars
    tPc,          \* position inside Resolve
    tResult,      \* local "result" (and the returned string once returned)
    tEnvTodo,     \* env names the first loop of Resolve has still to visit
    tPathTodo,    \* path names the running path loop has still to visit
    tPathAll,     \* local "pathVars" of Resolve
    tUnresolved,  \* local "unresolved"
    tErr,         \* returned error: <<kind, names>>
    \* ---- cli.Parser and the locals of its sub-parsers
    pArgs,        \* Parser.Args
    pPc,          \* position inside Parse
    pI,           \* loop index i (0-based, as in the Go code)
    pReq,         \* the command value under construction / returned
    pErr,         \* returned error kind
    \* ---- request.Builder.Build
    bReq,         \* the request.Request handed to the Builder
    bPc,          \* position inside Build
    bHttpReq,     \* the transport request: method, URL, body (nil before it is created)
    bHeader,      \* its http.Header
    bTodo,        \* keys of Request.Headers the header loop has still to visit
    bErr,         \* returned error kind
    \* ---- app.App (main, NewApp, Run)
    aPc,          \* position inside main
    aArgs,        \* os.Args[1:]
    aErr,         \* error main reports
    aIO,          \* the I/O operations performed so far, in order
    aPresets,     \* auth.Manager.presets
    aCalls,       \* the saved calls in <root>/.gosh/calls, by name
    aAuthFile,    \* <root>/.gosh/auth.yaml: absent, corrupt or present with its presets
    aWorkspace,   \* App.workspace: Env and Config.DefaultHeaders
    aReq,         \* the ParsedRequest executeRequest works on
    aHttpReq,     \* the request.Request handed to the executor
    \* ---- request.Executor and the Execute calls running on it
    eCalls,       \* per call: its Request, position, locals and returned values
    eIdle,        \* idle connections in the transport's pool
    sFS,          \* the workspace's file tree: path -> directory or file
    sLast,        \* the storage operation that returned last, with its result
    sPrevSave,    \* the call saved by the operation before it, if a Save succeeded
    sSaved,       \* names saved and not deleted since
    sDeleted,     \* names deleted and not saved since
    mFile,        \* .gosh/auth.yaml: whether it is there, its bytes and its mode
    mMgr,         \* per auth Manager: the presets it holds in memory
    mLast,        \* the auth Manager operation that returned last, with its error
    wTree,        \* the markers in each directory from the filesystem root down
    wCur,         \* findWorkspaceRoot: the directory the loop is at
    wPc,          \* findWorkspaceRoot: its position
    wRet          \* findWorkspaceRoot: the directory it returned

tvars == <<tText, tPathVars, tEnvVars, tPc, tResult, tEnvTodo, tPathTodo,
           tPathAll, tUnresolved, tErr>>
pvars == <<pArgs, pPc, pI, pReq, pErr>>
bvars == <<bReq, bPc, bHttpReq, bHeader, bTodo, bErr>>
avars == <<aPc, aArgs, aErr, aIO, aPresets, aCalls, aAuthFile, aWorkspace, aReq,
           aHttpReq>>
evars == <<eCalls, eIdle>>
svars == <<sFS, sLast, sPrevSave, sSaved, sDeleted>>
mvars == <<mFile, mMgr, mLast>>
wvars == <<wTree, wCur, wPc, wRet>>
xvars == <<evars, svars, mvars, wvars>>
coreVars == <<tvars, pvars, bvars, avars>>
exceptE == <<coreVars, svars, mvars, wvars>>
exceptS == <<coreVars, evars, mvars, wvars>>
exceptM == <<coreVars, evars, svars, wvars>>
exceptW == <<coreVars, evars, svars, mvars>>
vars == <<tvars, pvars, bvars, avars, xvars>>

-----------------------------------------------------------------------------
(* Go's strings package, on sequences of characters.                       *)

\* The empty map.
EmptyMap == [k \in {} |-> <<>>]

\* s with one binding added or replaced: m[k] = v.
MapSet(m, k, v) == [x \in DOMAIN m \cup {k} |-> IF x = k THEN v ELSE m[x]]

\* delete(m, k) on a Go map.
MapRemove(m, k) == [x \in DOMAIN m \ {k} |-> m[x]]

\* The elements of a sequence.
Range(s) == {s[i] : i \in 1..Len(s)}

\* strings.HasPrefix
HasPrefix(s, p) == Len(s) >= Len(p) /\ SubSeq(s, 1, Len(p)) = p

\* strings.Index, 1-based; 0 when sub does not occur.
Index(s, sub) ==
    LET hits == {i \in 1..(Len(s) - Len(sub) + 1) : SubSeq(s, i, i + Len(sub) - 1) = sub}
    IN  IF hits = {} THEN 0 ELSE CHOOSE i \in hits : \A j \in hits : i <= j

\* strings.Contains
Contains(s, sub) == Index(s, sub) # 0

\* strings.TrimPrefix
TrimPrefix(s, p) == IF HasPrefix(s, p) THEN SubSeq(s, Len(p) + 1, Len(s)) ELSE s

\* strings.SplitN(s, sep, 2): one part when sep does not occur, else the text
\* before and after its first occurrence.
SplitN2(s, sep) ==
    LET i == Index(s, sep)
    IN  IF i = 0 THEN <<s>>
        ELSE <<SubSeq(s, 1, i - 1), SubSeq(s, i + Len(sep), Len(s))>>

\* strings.ReplaceAll for a non-empty old: non-overlapping, left to right.
RECURSIVE ReplaceAll(_, _, _)
ReplaceAll(s, old, new) ==
    IF Len(s) < Len(old) \/ old = <<>> THEN s
    ELSE IF SubSeq(s, 1, Len(old)) = old
         THEN new \o ReplaceAll(SubSeq(s, Len(old) + 1, Len(s)), old, new)
         ELSE <<s[1]>> \o ReplaceAll(Tail(s), old, new)

\* The white space strings.TrimSpace removes (of the characters modelled).
IsSpace(c) == c \in {" ", "\t", "\n"}

\* strings.TrimSpace
RECURSIVE TrimLeft(_)
TrimLeft(s) == IF s # <<>> /\ IsSpace(s[1]) THEN TrimLeft(Tail(s)) ELSE s
RECURSIVE TrimRight(_)
TrimRight(s) ==
    IF s # <<>> /\ IsSpace(s[Len(s)]) THEN TrimRight(SubSeq(s, 1, Len(s) - 1)) ELSE s
TrimSpace(s) == TrimRight(TrimLeft(s))

Lowers == <<"a","b","c","d","e","f","g","h","i","j","k","l","m",
            "n","o","p","q","r","s","t","u","v","w","x","y","z">>
Uppers == <<"A","B","C","D","E","F","G","H","I","J","K","L","M",
            "N","O","P","Q","R","S","T","U","V","W","X","Y","Z">>

\* The position of a letter in its alphabet, 0 when c is not in it.
LetterIndex(alpha, c) ==
    IF \E i \in 1..26 : alpha[i] = c THEN CHOOSE i \in 1..26 : alpha[i] = c ELSE 0

UpperChar(c) == IF LetterIndex(Lowers, c) # 0 THEN Uppers[LetterIndex(Lowers, c)] ELSE c
LowerChar(c) == IF LetterIndex(Uppers, c) # 0 THEN Lowers[LetterIndex(Uppers, c)] ELSE c

\* strings.ToUpper, strings.ToLower
ToUpper(s) == [i \in 1..Len(s) |-> UpperChar(s[i])]
ToLower(s) == [i \in 1..Len(s) |-> LowerChar(s[i])]

\* A string literal of the source as a sequence of characters.
RECURSIVE Concat(_)
Concat(ss) == IF ss = <<>> THEN <<>> ELSE Head(ss) \o Concat(Tail(ss))

-----------------------------------------------------------------------------
(* String literals of the source, as sequences of characters.              *)

S_recall == <<"r", "e", "c", "a", "l", "l">>
S_list == <<"l", "i", "s", "t">>
S_delete == <<"d", "e", "l", "e", "t", "e">>
S_auth == <<"a", "u", "t", "h">>
S_version == <<"v", "e", "r", "s", "i", "o", "n">>
S_help == <<"h", "e", "l", "p">>
S_dashdash_version == <<"-", "-", "v", "e", "r", "s", "i", "o", "n">>
S_dash_v == <<"-", "v">>
S_dashdash_help == <<"-", "-", "h", "e", "l", "p">>
S_dash_h == <<"-", "h">>
S_save == <<"-", "-", "s", "a", "v", "e">>
S_dry == <<"-", "-", "d", "r", "y">>
S_info == <<"-", "-", "i", "n", "f", "o">>
S_no_interactive == <<"-", "-", "n", "o", "-", "i", "n", "t", "e", "r", "a", "c", "t", "i", "v", "e">>
S_env == <<"-", "-", "e", "n", "v">>
S_env_eq == <<"-", "-", "e", "n", "v", "=">>
S_format == <<"-", "-", "f", "o", "r", "m", "a", "t">>
S_format_eq == <<"-", "-", "f", "o", "r", "m", "a", "t", "=">>
S_auth_flag == <<"-", "-", "a", "u", "t", "h">>
S_auth_eq == <<"-", "-", "a", "u", "t", "h", "=">>
S_H == <<"-", "H">>
S_d == <<"-", "d">>
S_eqeq == <<"=", "=">>
S_eq == <<"=">>
S_colon == <<":">>
S_dash == <<"-">>
S_dashdash == <<"-", "-">>
S_add == <<"a", "d", "d">>
S_remove == <<"r", "e", "m", "o", "v", "e">>
S_delete_colon == <<"d", "e", "l", "e", "t", "e", ":">>

S_Authorization == <<"A", "u", "t", "h", "o", "r", "i", "z", "a", "t", "i", "o", "n">>
S_BasicSp == <<"B", "a", "s", "i", "c", " ">>
S_BearerSp == <<"B", "e", "a", "r", "e", "r", " ">>
S_basic == <<"b", "a", "s", "i", "c">>
S_bearer == <<"b", "e", "a", "r", "e", "r">>
S_custom == <<"c", "u", "s", "t", "o", "m">>
S_question == <<"?">>
S_amp == <<"&">>

ValidMethods == {
    <<"G", "E", "T">>,
    <<"P", "O", "S", "T">>,
    <<"P", "U", "T">>,
    <<"D", "E", "L", "E", "T", "E">>,
    <<"P", "A", "T", "C", "H">>,
    <<"H", "E", "A", "D">>,
    <<"O", "P", "T", "I", "O", "N", "S">>,
    <<"T", "R", "A", "C", "E">>,
    <<"C", "O", "N", "N", "E", "C", "T">> }

-----------------------------------------------------------------------------
(* request.Template                                                        *)

\* The index of the first "}" of s at or after position from, 0 when none.
FirstClose(s, from) ==
    LET hits == {j \in from..Len(s) : s[j] = "}"}
    IN  IF hits = {} THEN 0 ELSE CHOOSE j \in hits : \A k \in hits : j <= k

\* regexp `\{([^}]+)\}`, FindAllStringSubmatch: the captured names of the
\* leftmost non-overlapping matches, in order.
RECURSIVE PathMatches(_)
PathMatches(s) ==
    IF s = <<>> THEN <<>>
    ELSE IF s[1] = "{"
         THEN LET j == FirstClose(s, 2)
              IN  IF j <= 2 THEN PathMatches(Tail(s))
                  ELSE <<SubSeq(s, 2, j - 1)>> \o PathMatches(SubSeq(s, j + 1, Len(s)))
         ELSE PathMatches(Tail(s))

\* regexp `\$\{([^}]+)\}`, FindAllStringSubmatch.
RECURSIVE EnvMatches(_)
EnvMatches(s) ==
    IF Len(s) < 2 THEN <<>>
    ELSE IF s[1] = "$" /\ s[2] = "{"
         THEN LET j == FirstClose(s, 3)
              IN  IF j <= 3 THEN EnvMatches(Tail(s))
                  ELSE <<SubSeq(s, 3, j - 1)>> \o EnvMatches(SubSeq(s, j + 1, Len(s)))
         ELSE EnvMatches(Tail(s))

\* Extract functions without their "seen" map: every match is appended.
DedupKeepsAll(names) == names

\* The "seen" loop of the Extract functions: each name once, first occurrence first.
RECURSIVE Dedup(_)
Dedup(names) ==
    IF names = <<>> THEN <<>>
    ELSE LET rest == Dedup(SubSeq(names, 1, Len(names) - 1))
             last == names[Len(names)]
         IN  IF last \in Range(rest) THEN rest ELSE Append(rest, last)

ExtractPathVars(text) == Dedup(PathMatches(text))
ExtractEnvVars(text) == Dedup(EnvMatches(text))

\* fmt.Sprintf("${%s}", varName) and fmt.Sprintf("{%s}", varName)
EnvPlaceholder(name) == <<"$", "{">> \o name \o <<"}">>
PathPlaceholder(name) == <<"{">> \o name \o <<"}">>

NoErr == <<"none", <<>>>>

\* A Resolve that never reports a missing env name (the lookup's ok is ignored).
EnvMissingIgnored(envVars, name) == FALSE

\* Lines 78-81 of Resolve: the lookup that makes Resolve fail on an env name.
EnvMissing(envVars, name) == name \notin DOMAIN envVars

\* Line 78 of Resolve: val of `val, ok := t.envVars[varName]`, the empty
\* string for a name the map lacks.
EnvValue(envVars, name) == IF name \in DOMAIN envVars THEN envVars[name] ELSE <<>>

\* Line 83 of Resolve: one iteration of the env substitution loop.
SubstEnv(result, name, val) == ReplaceAll(result, EnvPlaceholder(name), val)

\* A check loop that stops collecting after the first unresolved name.
CheckPathVarFirstOnly(unresolved, pathVars, name) ==
    IF name \notin DOMAIN pathVars /\ unresolved = <<>> THEN <<name>> ELSE unresolved

\* Lines 89-93 of Resolve: one iteration of the unresolved-names loop.
CheckPathVar(unresolved, pathVars, name) ==
    IF name \notin DOMAIN pathVars THEN Append(unresolved, name) ELSE unresolved

\* strings.Replace(s, old, new, 1): the first occurrence only.
ReplaceFirst(s, old, new) ==
    LET i == Index(s, old)
    IN  IF i = 0 \/ old = <<>> THEN s
        ELSE SubSeq(s, 1, i - 1) \o new \o SubSeq(s, i + Len(old), Len(s))

\* A substitution loop that replaces only the first occurrence of a placeholder.
SubstPathFirstOnly(result, name, val) == ReplaceFirst(result, PathPlaceholder(name), val)

\* Lines 101-103 of Resolve: one iteration of the path substitution loop.
SubstPath(result, name, val) == ReplaceAll(result, PathPlaceholder(name), val)

\* The outcome of Resolve: the text returned and the error.
Resolved(result, err) == [result |-> result, err |-> err]

\* Resolve, lines 77-84: the env loop from the names still to do.
RECURSIVE ResolveEnvLoop(_, _, _)
ResolveEnvLoop(result, todo, envVars) ==
    IF todo = <<>> THEN Resolved(result, NoErr)
    ELSE IF EnvMissing(envVars, Head(todo))
         THEN Resolved(<<>>, <<"environment variable not found", <<Head(todo)>>>>)
         ELSE ResolveEnvLoop(SubstEnv(result, Head(todo), EnvValue(envVars, Head(todo))),
                             Tail(todo), envVars)

\* Resolve, lines 89-93: the check loop.
RECURSIVE ResolveCheckLoop(_, _, _)
ResolveCheckLoop(unresolved, todo, pathVars) ==
    IF todo = <<>> THEN unresolved
    ELSE ResolveCheckLoop(CheckPathVar(unresolved, pathVars, Head(todo)),
                          Tail(todo), pathVars)

\* Resolve, lines 100-104: the path substitution loop.
RECURSIVE ResolveSubstLoop(_, _, _)
ResolveSubstLoop(result, todo, pathVars) ==
    IF todo = <<>> THEN result
    ELSE ResolveSubstLoop(SubstPath(result, Head(todo), pathVars[Head(todo)]),
                          Tail(todo), pathVars)

\* Resolve as a function of the template's text and maps.
Resolve(text, pathVars, envVars) ==
    LET env == ResolveEnvLoop(text, ExtractEnvVars(text), envVars)
        unresolved == ResolveCheckLoop(<<>>, ExtractPathVars(text), pathVars)
    IN  IF env.err # NoErr THEN env
        ELSE IF Len(unresolved) > 0
             THEN Resolved(<<>>, <<"missing template variables", unresolved>>)
             ELSE Resolved(ResolveSubstLoop(env.result, ExtractPathVars(text), pathVars),
                           NoErr)

\* The pieces template texts are built from, and the values variables map to.
MaxPieces == 3
Pieces == { <<"$">>, <<"{">>, <<"}">>, <<"a">>,
            <<"{", "a", "}">>, <<"{", "b", "}">>,
            <<"$", "{", "a", "}">>, <<"$", "{", "b", "}">> }
Vals == { <<"x">>, <<"{", "b", "}">> }

RECURSIVE TextsOf(_)
TextsOf(n) ==
    IF n = 0 THEN {<<>>}
    ELSE LET prev == TextsOf(n - 1) IN prev \cup {t \o p : t \in prev, p \in Pieces}
Texts == TextsOf(MaxPieces)

\* Every map from a subset of keys to vals.
MapsOver(keys, vals) == UNION {[D -> vals] : D \in SUBSET keys}

TemplateIdle ==
    /\ tText = <<>> /\ tPathVars = EmptyMap /\ tEnvVars = EmptyMap
    /\ tPc = "off" /\ tResult = <<>> /\ tEnvTodo = <<>> /\ tPathTodo = <<>>
    /\ tPathAll = <<>> /\ tUnresolved = <<>> /\ tErr = NoErr

ParserIdle ==
    /\ pArgs = <<>> /\ pPc = "off" /\ pI = 0 /\ pReq = <<>> /\ pErr = "none"

BuilderIdle ==
    /\ bReq = <<>> /\ bPc = "off" /\ bHeader = EmptyMap /\ bTodo = {} /\ bErr = "none"
    /\ bHttpReq = <<>>

AppIdle ==
    /\ aPc = "off" /\ aArgs = <<>> /\ aErr = "none" /\ aIO = <<>>
    /\ aPresets = EmptyMap /\ aCalls = EmptyMap /\ aAuthFile = <<>>
    /\ aWorkspace = <<>> /\ aReq = <<>> /\ aHttpReq = <<>>
ExecutorIdle == eCalls = <<>> /\ eIdle = 0
StorageIdle ==
    sFS = <<>> /\ sLast = <<>> /\ sPrevSave = <<>> /\ sSaved = {} /\ sDeleted = {}
AuthManagerIdle == mFile = <<>> /\ mMgr = <<>> /\ mLast = <<>>
WorkspaceIdle == wTree = <<>> /\ wCur = 0 /\ wPc = "off" /\ wRet = 0
OthersIdle == ExecutorIdle /\ StorageIdle /\ AuthManagerIdle /\ WorkspaceIdle
CoreIdle == TemplateIdle /\ ParserIdle /\ BuilderIdle /\ AppIdle

\* NewTemplate(text): both maps empty.
InitTemplate ==
    /\ tText \in Texts
    /\ tPathVars = EmptyMap /\ tEnvVars = EmptyMap
    /\ tPc = "idle" /\ tResult = <<>> /\ tEnvTodo = <<>> /\ tPathTodo = <<>>
    /\ tPathAll = <<>> /\ tUnresolved = <<>> /\ tErr = NoErr
    /\ ParserIdle /\ BuilderIdle /\ AppIdle /\ OthersIdle

\* Template.SetPathVars
SetPathVars ==
    /\ tPc = "idle"
    /\ \E m \in MapsOver(Range(ExtractPathVars(tText)), Vals) : tPathVars' = m
    /\ UNCHANGED <<tText, tEnvVars, tPc, tResult, tEnvTodo, tPathTodo, tPathAll,
                   tUnresolved, tErr>>
    /\ UNCHANGED <<pvars, bvars, avars, xvars>>

\* Template.SetEnvVars
SetEnvVars ==
    /\ tPc = "idle"
    /\ \E m \in MapsOver(Range(ExtractEnvVars(tText)), Vals) : tEnvVars' = m
    /\ UNCHANGED <<tText, tPathVars, tPc, tResult, tEnvTodo, tPathTodo, tPathAll,
                   tUnresolved, tErr>>
    /\ UNCHANGED <<pvars, bvars, avars, xvars>>

\* Resolve, lines 73-76: result := t.text; envVars := t.ExtractEnvVars().
ResolveBegin ==
    /\ tPc = "idle"
    /\ tResult' = tText
    /\ tEnvTodo' = ExtractEnvVars(tText)
    /\ tPc' = "env"
    /\ UNCHANGED <<tText, tPathVars, tEnvVars, tPathTodo, tPathAll, tUnresolved, tErr>>
    /\ UNCHANGED <<pvars, bvars, avars, xvars>>

\* Resolve, lines 77-84: one iteration of the env loop; a missing name returns.
ResolveEnvStep ==
    /\ tPc = "env" /\ tEnvTodo # <<>>
    /\ LET name == Head(tEnvTodo)
       IN  IF EnvMissing(tEnvVars, name)
           THEN /\ tPc' = "failed"
                /\ tErr' = <<"environment variable not found", <<name>>>>
                /\ tResult' = <<>>
                /\ UNCHANGED tEnvTodo
           ELSE /\ tResult' = SubstEnv(tResult, name, EnvValue(tEnvVars, name))
                /\ tEnvTodo' = Tail(tEnvTodo)
                /\ UNCHANGED <<tPc, tErr>>
    /\ UNCHANGED <<tText, tPathVars, tEnvVars, tPathTodo, tPathAll, tUnresolved>>
    /\ UNCHANGED <<pvars, bvars, avars, xvars>>

\* Resolve, lines 87-88: pathVars := t.ExtractPathVars(), of t.text and not of
\* result; unresolved := []string{}.
ResolveCheckBegin ==
    /\ tPc = "env" /\ tEnvTodo = <<>>
    /\ tPathAll' = ExtractPathVars(tText)
    /\ tPathTodo' = ExtractPathVars(tText)
    /\ tUnresolved' = <<>>
    /\ tPc' = "check"
    /\ UNCHANGED <<tText, tPathVars, tEnvVars, tResult, tEnvTodo, tErr>>
    /\ UNCHANGED <<pvars, bvars, avars, xvars>>

\* Resolve, lines 89-93: one iteration of the check loop.
ResolveCheckStep ==
    /\ tPc = "check" /\ tPathTodo # <<>>
    /\ tUnresolved' = CheckPathVar(tUnresolved, tPathVars, Head(tPathTodo))
    /\ tPathTodo' = Tail(tPathTodo)
    /\ UNCHANGED <<tText, tPathVars, tEnvVars, tPc, tResult, tEnvTodo, tPathAll, tErr>>
    /\ UNCHANGED <<pvars, bvars, avars, xvars>>

\* Resolve, lines 95-97: any unresolved name returns the error listing them all.
ResolveCheckEnd ==
    /\ tPc = "check" /\ tPathTodo = <<>>
    /\ IF Len(tUnresolved) > 0
       THEN /\ tPc' = "failed"
            /\ tErr' = <<"missing template variables", tUnresolved>>
            /\ tResult' = <<>>
            /\ UNCHANGED tPathTodo
       ELSE /\ tPc' = "subst"
            /\ tPathTodo' = tPathAll
            /\ UNCHANGED <<tErr, tResult>>
    /\ UNCHANGED <<tText, tPathVars, tEnvVars, tEnvTodo, tPathAll, tUnresolved>>
    /\ UNCHANGED <<pvars, bvars, avars, xvars>>

\* Resolve, lines 100-104: one iteration of the path substitution loop.
ResolveSubstStep ==
    /\ tPc = "subst" /\ tPathTodo # <<>>
    /\ tResult' = SubstPath(tResult, Head(tPathTodo), tPathVars[Head(tPathTodo)])
    /\ tPathTodo' = Tail(tPathTodo)
    /\ UNCHANGED <<tText, tPathVars, tEnvVars, tPc, tEnvTodo, tPathAll, tUnresolved, tErr>>
    /\ UNCHANGED <<pvars, bvars, avars, xvars>>

\* Resolve, line 106: return result, nil.
ResolveReturn ==
    /\ tPc = "subst" /\ tPathTodo = <<>>
    /\ tPc' = "done"
    /\ UNCHANGED <<tText, tPathVars, tEnvVars, tResult, tEnvTodo, tPathTodo, tPathAll,
                   tUnresolved, tErr>>
    /\ UNCHANGED <<pvars, bvars, avars, xvars>>

NextTemplate ==
    \/ SetPathVars
    \/ SetEnvVars
    \/ ResolveBegin
    \/ ResolveEnvStep
    \/ ResolveCheckBegin
    \/ ResolveCheckStep
    \/ ResolveCheckEnd
    \/ ResolveSubstStep
    \/ ResolveReturn

SpecTemplate == InitTemplate /\ [][NextTemplate]_vars

-----------------------------------------------------------------------------
(* cli.Parser                                                              *)

\* The nil command value returned beside an error.
Nil == <<>>

\* p.Args[i] for the 0-based index of the Go code.
Arg(args, i) == args[i + 1]

\* The ParsedRequest parseRequest starts from (lines 63-69): empty maps, zero
\* values elsewhere.
NewParsedRequest(method, url) ==
    [kind |-> "request", Method |-> method, URL |-> url,
     Headers |-> EmptyMap, QueryParams |-> EmptyMap, PathParams |-> EmptyMap,
     Body |-> <<>>, HasStdinBody |-> FALSE, Save |-> <<>>, Dry |-> FALSE,
     Info |-> FALSE, NoInteractive |-> FALSE, Env |-> <<>>, Format |-> <<>>,
     Auth |-> <<>>]

\* The outcome of one loop iteration: the command value, the index after the
\* iteration's own i++ (the loop's i++ not yet applied) and the error returned.
Step(req, i, err) == [req |-> req, i |-> i, err |-> err]

\* An inline flag value kept with its flag (the prefix is not trimmed).
InlineValueUntrimmed(arg, prefix) == arg

\* strings.TrimPrefix(arg, "--env=") and its like: the value of an inline flag.
InlineValue(arg, prefix) == TrimPrefix(arg, prefix)

\* The value-taking form "--flag value": the following argument is the value.
FollowingValue(req, args, i, field, missing) ==
    IF i + 1 >= Len(args) THEN Step(Nil, i, missing)
    ELSE Step([req EXCEPT ![field] = Arg(args, i + 1)], i + 1, "none")

\* Lines 126-134 of parseRequest (196-203 of parseRecall): "key:value", else
\* "key=value", trimmed.
SetHeader(req, i, headerVal) ==
    LET byColon == SplitN2(headerVal, S_colon)
        byEq == SplitN2(headerVal, S_eq)
        parts == IF Len(byColon) = 2 THEN byColon ELSE byEq
    IN  IF Len(parts) # 2 THEN Step(Nil, i, "invalid header format")
        ELSE Step([req EXCEPT !.Headers =
                       MapSet(@, TrimSpace(parts[1]), TrimSpace(parts[2]))], i, "none")

\* Lines 112-134 of parseRequest: -H value or -Hvalue.
HeaderArg(req, args, i) ==
    IF Arg(args, i) = S_H
    THEN IF i + 1 >= Len(args) THEN Step(Nil, i, "-H requires a value")
         ELSE SetHeader(req, i + 1, Arg(args, i + 1))
    ELSE SetHeader(req, i, TrimPrefix(Arg(args, i), S_H))

\* Lines 135-147 of parseRequest: -d value or -dvalue.
BodyArg(req, args, i) ==
    IF Arg(args, i) = S_d
    THEN IF i + 1 >= Len(args) THEN Step(Nil, i, "-d requires a value")
         ELSE Step([req EXCEPT !.Body = Arg(args, i + 1)], i + 1, "none")
    ELSE Step([req EXCEPT !.Body = TrimPrefix(Arg(args, i), S_d)], i, "none")

\* A default branch that tests "=" before "==".
RequestDefaultArgEqFirst(req, arg, i) ==
    IF Contains(arg, S_eq) /\ ~HasPrefix(arg, S_dash)
    THEN LET parts == SplitN2(arg, S_eq)
         IN  Step([req EXCEPT !.PathParams = MapSet(@, parts[1], parts[2])], i, "none")
    ELSE IF Contains(arg, S_eqeq)
         THEN LET parts == SplitN2(arg, S_eqeq)
              IN  Step([req EXCEPT !.QueryParams = MapSet(@, parts[1], parts[2])], i, "none")
         ELSE Step(Nil, i, "unexpected argument")

\* A default branch that skips what it does not recognise, as parseRecall does.
RequestDefaultArgSkips(req, arg, i) ==
    IF Contains(arg, S_eqeq)
    THEN LET parts == SplitN2(arg, S_eqeq)
         IN  Step([req EXCEPT !.QueryParams = MapSet(@, parts[1], parts[2])], i, "none")
    ELSE IF Contains(arg, S_eq) /\ ~HasPrefix(arg, S_dash)
         THEN LET parts == SplitN2(arg, S_eq)
              IN  Step([req EXCEPT !.PathParams = MapSet(@, parts[1], parts[2])], i, "none")
         ELSE Step(req, i, "none")

\* Lines 148-160 of parseRequest: query parameter, path parameter or error.
RequestDefaultArg(req, arg, i) ==
    IF Contains(arg, S_eqeq)
    THEN LET parts == SplitN2(arg, S_eqeq)
         IN  Step([req EXCEPT !.QueryParams = MapSet(@, parts[1], parts[2])], i, "none")
    ELSE IF Contains(arg, S_eq) /\ ~HasPrefix(arg, S_dash)
         THEN LET parts == SplitN2(arg, S_eq)
              IN  Step([req EXCEPT !.PathParams = MapSet(@, parts[1], parts[2])], i, "none")
         ELSE Step(Nil, i, "unexpected argument")

\* Lines 73-161 of parseRequest: the switch on one argument, cases in order.
RequestArg(req, args, i) ==
    LET arg == Arg(args, i)
    IN  IF arg = S_save
        THEN FollowingValue(req, args, i, "Save", "--save requires a name argument")
        ELSE IF arg = S_dry THEN Step([req EXCEPT !.Dry = TRUE], i, "none")
        ELSE IF arg = S_info THEN Step([req EXCEPT !.Info = TRUE], i, "none")
        ELSE IF arg = S_no_interactive
        THEN Step([req EXCEPT !.NoInteractive = TRUE], i, "none")
        ELSE IF HasPrefix(arg, S_env_eq)
        THEN Step([req EXCEPT !.Env = InlineValue(arg, S_env_eq)], i, "none")
        ELSE IF arg = S_env
        THEN FollowingValue(req, args, i, "Env", "--env requires a value")
        ELSE IF HasPrefix(arg, S_format_eq)
        THEN Step([req EXCEPT !.Format = InlineValue(arg, S_format_eq)], i, "none")
        ELSE IF arg = S_format
        THEN FollowingValue(req, args, i, "Format", "--format requires a value")
        ELSE IF HasPrefix(arg, S_auth_eq)
        THEN Step([req EXCEPT !.Auth = InlineValue(arg, S_auth_eq)], i, "none")
        ELSE IF arg = S_auth_flag
        THEN FollowingValue(req, args, i, "Auth", "--auth requires a value")
        ELSE IF HasPrefix(arg, S_H) THEN HeaderArg(req, args, i)
        ELSE IF HasPrefix(arg, S_d) THEN BodyArg(req, args, i)
        ELSE RequestDefaultArg(req, arg, i)

\* The RecallOptions parseRecall starts from (lines 173-177).
NewRecallOptions(name) ==
    [kind |-> "recall", Name |-> name, ParameterOverride |-> EmptyMap,
     Headers |-> EmptyMap, Env |-> <<>>]

\* Lines 181-218 of parseRecall: the switch on one argument; an argument
\* without "=" that is no flag is passed over.
RecallArg(opts, args, i) ==
    LET arg == Arg(args, i)
    IN  IF HasPrefix(arg, S_H) THEN HeaderArg(opts, args, i)
        ELSE IF HasPrefix(arg, S_env_eq)
        THEN Step([opts EXCEPT !.Env = TrimPrefix(arg, S_env_eq)], i, "none")
        ELSE IF arg = S_env
        THEN FollowingValue(opts, args, i, "Env", "--env requires a value")
        ELSE IF Contains(arg, S_eq)
        THEN LET parts == SplitN2(arg, S_eq)
             IN  Step([opts EXCEPT !.ParameterOverride = MapSet(@, parts[1], parts[2])],
                      i, "none")
        ELSE Step(opts, i, "none")

\* The AuthCommand values parseAuth returns.
NewAuthCommand(sub, type, name) ==
    [kind |-> "auth", Subcommand |-> sub, Type |-> type, Name |-> name,
     Flags |-> EmptyMap]

\* Lines 260-268 of parseAuth: "key=value", else a flag taking the following
\* argument when that argument starts with "--", else nothing.
AuthAddArg(cmd, args, i) ==
    LET arg == Arg(args, i)
    IN  IF Contains(arg, S_eq)
        THEN LET parts == SplitN2(arg, S_eq)
             IN  Step([cmd EXCEPT !.Flags = MapSet(@, parts[1], parts[2])], i, "none")
        ELSE IF i + 1 < Len(args) /\ HasPrefix(Arg(args, i + 1), S_dashdash)
             THEN Step([cmd EXCEPT !.Flags = MapSet(@, arg, Arg(args, i + 1))],
                       i + 1, "none")
             ELSE Step(cmd, i, "none")

\* A returned string command ("version", "help", "list", "delete:<name>").
StringCommand(v) == [kind |-> "string", value |-> v]

\* What Parse and the sub-parser it dispatches to do before any loop: the
\* position reached, the command value so far, the loop index and the error.
Dispatched(pc, req, i, err) == [pc |-> pc, req |-> req, i |-> i, err |-> err]

\* parseRequest, lines 47-69.
RequestPrologue(args) ==
    IF Len(args) < 2 THEN Dispatched("done", Nil, 0, "method and URL required")
    ELSE IF ToUpper(Arg(args, 0)) \notin ValidMethods
         THEN Dispatched("done", Nil, 0, "invalid HTTP method")
         ELSE Dispatched("request",
                         NewParsedRequest(ToUpper(Arg(args, 0)), Arg(args, 1)), 2, "none")

\* parseRecall, lines 169-177.
RecallPrologue(args) ==
    IF Len(args) < 2 THEN Dispatched("done", Nil, 0, "recall requires a call name")
    ELSE Dispatched("recall", NewRecallOptions(Arg(args, 1)), 2, "none")

\* parseDelete, lines 230-236.
DeletePrologue(args) ==
    IF Len(args) < 2 THEN Dispatched("done", Nil, 0, "delete requires a call name")
    ELSE Dispatched("done", StringCommand(S_delete_colon \o Arg(args, 1)), 0, "none")

\* parseAuth, lines 241-287, up to the flag loop of "add".
AuthPrologue(args) ==
    IF Len(args) < 2
    THEN Dispatched("done", NewAuthCommand("list", <<>>, <<>>), 0, "none")
    ELSE LET subcmd == ToLower(Arg(args, 1))
         IN  IF subcmd = S_list
             THEN Dispatched("done", NewAuthCommand("list", <<>>, <<>>), 0, "none")
             ELSE IF subcmd = S_add
             THEN IF Len(args) < 4
                  THEN Dispatched("done", Nil, 0, "auth add requires: type name [options]")
                  ELSE Dispatched("authadd",
                                  NewAuthCommand("add", ToLower(Arg(args, 2)), Arg(args, 3)),
                                  4, "none")
             ELSE IF subcmd \in {S_remove, S_delete}
             THEN IF Len(args) < 3
                  THEN Dispatched("done", Nil, 0, "auth remove requires: name")
                  ELSE Dispatched("done", NewAuthCommand("remove", <<>>, Arg(args, 2)),
                                  0, "none")
             ELSE Dispatched("done", Nil, 0, "unknown auth subcommand")

\* Parse, lines 20-42: the dispatch on the lower-cased first argument.
ParsePrologue(args) ==
    IF Len(args) < 1 THEN Dispatched("done", Nil, 0, "no command provided")
    ELSE LET cmd == ToLower(Arg(args, 0))
         IN  IF cmd = S_recall THEN RecallPrologue(args)
             ELSE IF cmd = S_list THEN Dispatched("done", StringCommand(S_list), 0, "none")
             ELSE IF cmd = S_delete THEN DeletePrologue(args)
             ELSE IF cmd = S_auth THEN AuthPrologue(args)
             ELSE IF cmd \in {S_dashdash_version, S_dash_v}
             THEN Dispatched("done", StringCommand(S_version), 0, "none")
             ELSE IF cmd \in {S_dashdash_help, S_dash_h}
             THEN Dispatched("done", StringCommand(S_help), 0, "none")
             ELSE RequestPrologue(args)

\* One iteration of the loop the parser is in.
LoopArg(pc, req, args, i) ==
    IF pc = "request" THEN RequestArg(req, args, i)
    ELSE IF pc = "recall" THEN RecallArg(req, args, i)
    ELSE AuthAddArg(req, args, i)

\* The loop run to its end from index i: the value and error Parse returns.
RECURSIVE RunLoop(_, _, _, _)
RunLoop(pc, req, args, i) ==
    IF i >= Len(args) THEN [req |-> req, err |-> "none"]
    ELSE LET st == LoopArg(pc, req, args, i)
         IN  IF st.err # "none" THEN [req |-> Nil, err |-> st.err]
             ELSE RunLoop(pc, st.req, args, st.i + 1)

\* Parse as a function of the argument vector.
ParseResult(args) ==
    LET d == ParsePrologue(args)
    IN  IF d.pc = "done" THEN [req |-> d.req, err |-> d.err]
        ELSE RunLoop(d.pc, d.req, args, d.i)

-----------------------------------------------------------------------------
(* The argument vectors parsed.                                            *)

\* The number of arguments after the fixed head of a command.
MaxExtra == 3

\* Arguments that follow <method> <url>.
RequestPool ==
    {
      <<"-", "-", "s", "a", "v", "e">>,
      <<"-", "-", "s", "a", "v", "e", "=", "n">>,
      <<"-", "-", "e", "n", "v">>,
      <<"-", "-", "e", "n", "v", "=", "n">>,
      <<"-", "-", "f", "o", "r", "m", "a", "t">>,
      <<"-", "-", "f", "o", "r", "m", "a", "t", "=", "n">>,
      <<"-", "-", "a", "u", "t", "h">>,
      <<"-", "-", "a", "u", "t", "h", "=", "n">>,
      <<"n">>,
      <<"-", "-", "d", "r", "y">>,
      <<"-", "H">>,
      <<"-", "H", "k", ":", "v">>,
      <<"k", "=", "=", "v">>,
      <<"k", "=", "v">>,
      <<"-", "H", "k", "=", "=", "v">>,
      <<"-", "d">>,
      <<"-", "-", "x">>,
      <<"-", "x", "=", "1">> }

\* Arguments that follow recall <name>.
RecallPool ==
    {
      <<"-", "H">>,
      <<"-", "H", "k", ":", "v">>,
      <<"-", "-", "e", "n", "v">>,
      <<"-", "-", "e", "n", "v", "=", "n">>,
      <<"k", "=", "v">>,
      <<"n">>,
      <<"-", "-", "i", "n", "f", "o">> }

\* Arguments that follow auth add <type> <name>.
AuthAddPool ==
    {
      <<"t", "o", "k", "e", "n", "=", "a", "b", "c">>,
      <<"-", "-", "t", "o", "k", "e", "n">>,
      <<"a", "b", "c">>,
      <<"-", "u">>,
      <<"-", "-", "t", "o", "k", "e", "n", "=", "a", "b", "c">>,
      <<"-", "-", "x">> }

RequestHead == <<<<"g", "e", "t">>, <<"u">>>>
RecallHead == <<<<"r", "e", "c", "a", "l", "l">>, <<"c">>>>
AuthAddHead == <<<<"a", "u", "t", "h">>, <<"a", "d", "d">>, <<"b", "e", "a", "r", "e", "r">>, <<"p">>>>

\* Argument vectors of the commands without a loop, and of every method.
OtherVectors ==
    {
      <<>>,
      <<<<"l", "i", "s", "t">>>>,
      <<<<"L", "I", "S", "T">>, <<"n">>>>,
      <<<<"d", "e", "l", "e", "t", "e">>>>,
      <<<<"d", "e", "l", "e", "t", "e">>, <<"n">>>>,
      <<<<"a", "u", "t", "h">>>>,
      <<<<"a", "u", "t", "h">>, <<"l", "i", "s", "t">>>>,
      <<<<"a", "u", "t", "h">>, <<"r", "e", "m", "o", "v", "e">>>>,
      <<<<"a", "u", "t", "h">>, <<"r", "e", "m", "o", "v", "e">>, <<"n">>>>,
      <<<<"a", "u", "t", "h">>, <<"d", "e", "l", "e", "t", "e">>, <<"n">>>>,
      <<<<"a", "u", "t", "h">>, <<"b", "o", "g", "u", "s">>>>,
      <<<<"a", "u", "t", "h">>, <<"a", "d", "d">>, <<"b", "e", "a", "r", "e", "r">>>>,
      <<<<"-", "-", "v", "e", "r", "s", "i", "o", "n">>>>,
      <<<<"-", "v">>>>,
      <<<<"-", "-", "h", "e", "l", "p">>>>,
      <<<<"-", "h">>>>,
      <<<<"g", "e", "t">>>>,
      <<<<"r", "e", "c", "a", "l", "l">>>>,
      <<<<"f", "e", "t", "c", "h">>, <<"u">>>>,
      <<<<"p", "o", "s", "t">>, <<"u">>>>,
      <<<<"P", "u", "t">>, <<"u">>>>,
      <<<<"D", "E", "L", "E", "T", "E">>, <<"u">>>>,
      <<<<"p", "a", "t", "c", "h">>, <<"u">>>>,
      <<<<"h", "e", "a", "d">>, <<"u">>>>,
      <<<<"o", "p", "t", "i", "o", "n", "s">>, <<"u">>>>,
      <<<<"t", "r", "a", "c", "e">>, <<"u">>>>,
      <<<<"c", "o", "n", "n", "e", "c", "t">>, <<"u">>>> }

\* Every sequence of at most n elements of pool.
RECURSIVE SeqsUpTo(_, _)
SeqsUpTo(pool, n) ==
    IF n = 0 THEN {<<>>}
    ELSE LET prev == SeqsUpTo(pool, n - 1) IN prev \cup {Append(e, x) : e \in prev, x \in pool}

ArgVectors ==
    {RequestHead \o e : e \in SeqsUpTo(RequestPool, MaxExtra)}
    \cup {RecallHead \o e : e \in SeqsUpTo(RecallPool, MaxExtra)}
    \cup {AuthAddHead \o e : e \in SeqsUpTo(AuthAddPool, MaxExtra)}
    \cup OtherVectors

\* NewParser(args)
InitParser ==
    /\ pArgs \in ArgVectors
    /\ pPc = "start" /\ pI = 0 /\ pReq = Nil /\ pErr = "none"
    /\ TemplateIdle /\ BuilderIdle /\ AppIdle /\ OthersIdle

\* Parse up to the first loop iteration of the sub-parser it dispatches to.
ParseDispatch ==
    /\ pPc = "start"
    /\ LET d == ParsePrologue(pArgs)
       IN  /\ pPc' = d.pc
           /\ pReq' = d.req
           /\ pI' = d.i
           /\ pErr' = d.err
    /\ UNCHANGED pArgs
    /\ UNCHANGED <<tvars, bvars, avars, xvars>>

\* One iteration of the loop of parseRequest, parseRecall or parseAuth: an
\* error returns nil and the error, otherwise the loop's i++ follows.
ParseLoopStep(pc) ==
    /\ pPc = pc /\ pI < Len(pArgs)
    /\ LET st == LoopArg(pc, pReq, pArgs, pI)
       IN  IF st.err # "none"
           THEN /\ pPc' = "done" /\ pReq' = Nil /\ pErr' = st.err
                /\ UNCHANGED pI
           ELSE /\ pReq' = st.req /\ pI' = st.i + 1
                /\ UNCHANGED <<pPc, pErr>>
    /\ UNCHANGED pArgs
    /\ UNCHANGED <<tvars, bvars, avars, xvars>>

\* The loop condition fails: the sub-parser returns its command value.
ParseLoopEnd(pc) ==
    /\ pPc = pc /\ pI >= Len(pArgs)
    /\ pPc' = "done"
    /\ UNCHANGED <<pArgs, pI, pReq, pErr>>
    /\ UNCHANGED <<tvars, bvars, avars, xvars>>

ParseRequestStep == ParseLoopStep("request")
ParseRequestReturn == ParseLoopEnd("request")
ParseRecallStep == ParseLoopStep("recall")
ParseRecallReturn == ParseLoopEnd("recall")
ParseAuthAddStep == ParseLoopStep("authadd")
ParseAuthAddReturn == ParseLoopEnd("authadd")

NextParser ==
    \/ ParseDispatch
    \/ ParseRequestStep
    \/ ParseRequestReturn
    \/ ParseRecallStep
    \/ ParseRecallReturn
    \/ ParseAuthAddStep
    \/ ParseAuthAddReturn

SpecParser == InitParser /\ [][NextParser]_vars

-----------------------------------------------------------------------------
(* net/http, net/url and encoding/base64 as Build and Apply use them.      *)

Digits == <<"0", "1", "2", "3", "4", "5", "6", "7", "8", "9">>

DigitIndex(c) ==
    IF \E i \in 1..10 : Digits[i] = c THEN CHOOSE i \in 1..10 : Digits[i] = c ELSE 0

IsLetter(c) == LetterIndex(Lowers, c) # 0 \/ LetterIndex(Uppers, c) # 0

\* The byte of a character: letters, digits and the punctuation modelled.
Ascii(c) ==
    IF LetterIndex(Uppers, c) # 0 THEN 64 + LetterIndex(Uppers, c)
    ELSE IF LetterIndex(Lowers, c) # 0 THEN 96 + LetterIndex(Lowers, c)
    ELSE IF DigitIndex(c) # 0 THEN 47 + DigitIndex(c)
    ELSE CASE c = ":" -> 58 [] c = "-" -> 45 [] c = " " -> 32 [] c = "=" -> 61
           [] c = "_" -> 95 [] c = "." -> 46 [] c = "/" -> 47

\* The alphabet of base64.StdEncoding.
Base64Char(n) ==
    IF n < 26 THEN Uppers[n + 1]
    ELSE IF n < 52 THEN Lowers[n - 25]
    ELSE IF n < 62 THEN Digits[n - 51]
    ELSE IF n = 62 THEN "+" ELSE "/"

\* base64.StdEncoding.EncodeToString on a sequence of bytes: three bytes to
\* four characters, "=" padding at the end.
RECURSIVE Base64Bytes(_)
Base64Bytes(b) ==
    IF b = <<>> THEN <<>>
    ELSE IF Len(b) = 1
    THEN <<Base64Char(b[1] \div 4), Base64Char((b[1] % 4) * 16), "=", "=">>
    ELSE IF Len(b) = 2
    THEN <<Base64Char(b[1] \div 4), Base64Char((b[1] % 4) * 16 + b[2] \div 16),
           Base64Char((b[2] % 16) * 4), "=">>
    ELSE <<Base64Char(b[1] \div 4), Base64Char((b[1] % 4) * 16 + b[2] \div 16),
           Base64Char((b[2] % 16) * 4 + b[3] \div 64), Base64Char(b[3] % 64)>>
         \o Base64Bytes(SubSeq(b, 4, Len(b)))

Base64(s) == Base64Bytes([i \in 1..Len(s) |-> Ascii(s[i])])

\* textproto's valid header field byte: a token character (of those modelled).
IsTokenChar(c) == IsLetter(c) \/ DigitIndex(c) # 0 \/ c \in {"-", "_", "."}

\* textproto.CanonicalMIMEHeaderKey: a key with a byte that is no token
\* character is returned as it is; otherwise the first letter and each letter
\* after "-" are upper-cased and the others lower-cased.
CanonicalMIMEHeaderKey(k) ==
    IF \E i \in 1..Len(k) : ~IsTokenChar(k[i]) THEN k
    ELSE [i \in 1..Len(k) |->
            IF i = 1 \/ k[i - 1] = "-" THEN UpperChar(k[i]) ELSE LowerChar(k[i])]

\* http.Header.Set: the canonical key holds exactly the one value.
HeaderSet(h, k, v) == MapSet(h, CanonicalMIMEHeaderKey(k), <<v>>)

\* http.Header.Add: the value is appended to those of the canonical key.
HeaderAdd(h, k, v) ==
    LET ck == CanonicalMIMEHeaderKey(k)
    IN  MapSet(h, ck, IF ck \in DOMAIN h THEN Append(h[ck], v) ELSE <<v>>)

\* strings.Split(s, sep) for a one-character sep.
RECURSIVE SplitAll(_, _)
SplitAll(s, sep) ==
    LET i == Index(s, sep)
    IN  IF i = 0 THEN <<s>>
        ELSE <<SubSeq(s, 1, i - 1)>> \o SplitAll(SubSeq(s, i + Len(sep), Len(s)), sep)

\* url.Values.Add
ValuesAdd(q, k, v) == MapSet(q, k, IF k \in DOMAIN q THEN Append(q[k], v) ELSE <<v>>)

\* url.ParseQuery on the pairs of a raw query: "k=v" pairs joined by "&"; an
\* empty pair is skipped and a pair without "=" has the empty value.
RECURSIVE QueryOfPairs(_)
QueryOfPairs(pairs) ==
    IF pairs = <<>> THEN EmptyMap
    ELSE LET rest == QueryOfPairs(SubSeq(pairs, 1, Len(pairs) - 1))
             pair == pairs[Len(pairs)]
             kv == SplitN2(pair, S_eq)
         IN  IF pair = <<>> THEN rest
             ELSE ValuesAdd(rest, kv[1], IF Len(kv) = 2 THEN kv[2] ELSE <<>>)

\* URL.Query(): the values of the raw query.
ParseQuery(raw) == IF raw = <<>> THEN EmptyMap ELSE QueryOfPairs(SplitAll(raw, S_amp))

\* The first path segment of a URL without scheme holds a colon, or the URL
\* holds a control character: the url.Parse errors modelled.  A scheme is a
\* letter followed by letters, digits, "+", "-" and "." up to the first ":".
URLParseFails(u) ==
    LET beforeQuery == SplitN2(u, S_question)[1]
        colon == Index(beforeQuery, S_colon)
        schemeOK == /\ colon > 1
                    /\ IsLetter(beforeQuery[1])
                    /\ \A i \in 1..(colon - 1) :
                          IsLetter(beforeQuery[i]) \/ DigitIndex(beforeQuery[i]) # 0
                            \/ beforeQuery[i] \in {"+", "-", "."}
        segment == SplitN2(beforeQuery, <<"/">>)[1]
    IN  \/ \E i \in 1..Len(u) : u[i] \in {"\n", "\t"}
        \/ colon = 1
        \/ ~schemeOK /\ Contains(segment, S_colon)

\* url.Parse: the URL up to "?" and the raw query after it.
URLParse(u) ==
    LET parts == SplitN2(u, S_question)
    IN  [base |-> parts[1], query |-> IF Len(parts) = 2 THEN parts[2] ELSE <<>>]

-----------------------------------------------------------------------------
(* auth.AuthPreset.Apply and request.Builder.Build                         *)

\* The outcome of Apply: the headers of the request and the error returned.
Applied(h, err) == [header |-> h, err |-> err]

\* applyBasic, lines 52-63.
ApplyBasic(p, h) ==
    IF p.Username = <<>> THEN Applied(h, "basic auth requires username")
    ELSE Applied(HeaderSet(h, S_Authorization,
                           S_BasicSp \o Base64(p.Username \o S_colon \o p.Password)),
                 "none")

\* An applyBearer that leaves an Authorization header that is already set.
ApplyBearerKeepsManual(p, h) ==
    IF p.Token = <<>> THEN Applied(h, "bearer auth requires token")
    ELSE IF S_Authorization \in DOMAIN h THEN Applied(h, "none")
    ELSE Applied(HeaderSet(h, S_Authorization, S_BearerSp \o p.Token), "none")

\* applyBearer, lines 66-72.
ApplyBearer(p, h) ==
    IF p.Token = <<>> THEN Applied(h, "bearer auth requires token")
    ELSE Applied(HeaderSet(h, S_Authorization, S_BearerSp \o p.Token), "none")

\* applyCustom, lines 91-98: the extra "Key: Value" lines, those without a
\* colon passed over.
RECURSIVE AddExtraHeaders(_, _)
AddExtraHeaders(h, lines) ==
    IF lines = <<>> THEN h
    ELSE LET parts == SplitN2(Head(lines), S_colon)
         IN  AddExtraHeaders(IF Len(parts) = 2
                             THEN HeaderAdd(h, TrimSpace(parts[1]), TrimSpace(parts[2]))
                             ELSE h,
                             Tail(lines))

\* applyCustom, lines 75-101.
ApplyCustom(p, h) ==
    IF p.Header = <<>> THEN Applied(h, "custom auth requires header name")
    ELSE Applied(AddExtraHeaders(
                     HeaderSet(h, p.Header,
                               IF p.Prefix # <<>> THEN p.Prefix \o p.Value ELSE p.Value),
                     p.Headers),
                 "none")

\* AuthPreset.Apply, lines 38-49: the switch on the lower-cased type.
Apply(p, h) ==
    LET type == ToLower(p.Type)
    IN  IF type = S_basic THEN ApplyBasic(p, h)
        ELSE IF type = S_bearer THEN ApplyBearer(p, h)
        ELSE IF type = S_custom THEN ApplyCustom(p, h)
        ELSE Applied(h, "unknown auth type")

\* An AuthPreset.
Preset(name, type, username, password, token, header, prefix, value, headers) ==
    [Name |-> name, Type |-> type, Username |-> username, Password |-> password,
     Token |-> token, Header |-> header, Prefix |-> prefix, Value |-> value,
     Headers |-> headers]

\* The presets a Request carries.
BuildPresets ==
    {
      Preset(<<"b", "1">>, <<"b", "e", "a", "r", "e", "r">>, <<>>,
             <<>>, <<"x", "y", "z">>,
             <<>>, <<>>, <<>>,
             <<>>),
      Preset(<<"b", "2">>, <<"B", "e", "a", "r", "e", "r">>, <<>>,
             <<>>, <<"t", "k">>,
             <<>>, <<>>, <<>>,
             <<>>),
      Preset(<<"b", "3">>, <<"B", "E", "A", "R", "E", "R">>, <<>>,
             <<>>, <<>>,
             <<>>, <<>>, <<>>,
             <<>>),
      Preset(<<"u", "1">>, <<"b", "a", "s", "i", "c">>, <<"j", "o", "h", "n">>,
             <<"s", "e", "c", "r", "e", "t", "1", "2", "3">>, <<>>,
             <<>>, <<>>, <<>>,
             <<>>),
      Preset(<<"u", "2">>, <<"B", "a", "s", "i", "c">>, <<>>,
             <<"s", "e", "c", "r", "e", "t", "1", "2", "3">>, <<>>,
             <<>>, <<>>, <<>>,
             <<>>),
      Preset(<<"c", "1">>, <<"c", "u", "s", "t", "o", "m">>, <<>>,
             <<>>, <<>>,
             <<"a", "u", "t", "h", "o", "r", "i", "z", "a", "t", "i", "o", "n">>, <<"t", "o", "k", "e", "n", " ">>, <<"a", "b", "c">>,
             <<<<"X", "-", "A", "p", "i", ":", " ", "1">>, <<"b", "r", "o", "k", "e", "n">>>>),
      Preset(<<"c", "2">>, <<"c", "u", "s", "t", "o", "m">>, <<>>,
             <<>>, <<>>,
             <<>>, <<>>, <<"a", "b", "c">>,
             <<>>),
      Preset(<<"d", "1">>, <<"d", "i", "g", "e", "s", "t">>, <<>>,
             <<>>, <<>>,
             <<>>, <<>>, <<>>,
             <<>>) }

\* The keys and values of Request.Headers.
BuildHeaderKeys ==
    { <<"A", "u", "t", "h", "o", "r", "i", "z", "a", "t", "i", "o", "n">>,
      <<"a", "u", "t", "h", "o", "r", "i", "z", "a", "t", "i", "o", "n">>,
      <<"A", "U", "T", "H", "O", "R", "I", "Z", "A", "T", "I", "O", "N">>,
      <<"x", "-", "a", "p", "i">> }
BuildHeaderVals == { <<"m", "1">>, <<"m", "2">> }

\* The URLs, query parameters and bodies of a Request.
BuildURLs ==
    { <<"h", "t", "t", "p", ":", "/", "/", "h", "/", "p">>,
      <<"h", "t", "t", "p", ":", "/", "/", "h", "/", "p", "?", "a", "=", "1">>,
      <<"h", "t", "!", "t", "p", ":", "/", "/", "h">> }
BuildQueryParams == { EmptyMap, [k \in {<<"a">>} |-> <<"2">>] }
BuildBodies == { <<>>, <<"b", "o", "d", "y">> }

\* NewBuilder(req) for a request.Request.
InitBuilder ==
    /\ \E url \in BuildURLs, q \in BuildQueryParams, body \in BuildBodies,
          hs \in MapsOver(BuildHeaderKeys, BuildHeaderVals),
          auth \in BuildPresets \cup {Nil} :
          bReq = [Method |-> <<"G", "E", "T">>, URL |-> url, Headers |-> hs,
                  QueryParams |-> q, Body |-> body, Auth |-> auth]
    /\ bPc = "start" /\ bHeader = EmptyMap /\ bTodo = {} /\ bErr = "none"
    /\ bHttpReq = Nil
    /\ TemplateIdle /\ ParserIdle /\ AppIdle /\ OthersIdle

\* u.Query() with every query parameter added (lines 29-35); the order of the
\* additions does not show, each key being added once.
RECURSIVE MergeQuery(_, _, _)
MergeQuery(q, params, keys) ==
    IF keys = {} THEN q
    ELSE LET k == CHOOSE x \in keys : TRUE
         IN  MergeQuery(ValuesAdd(q, k, params[k]), params, keys \ {k})

\* Build, lines 29-46: the transport request made of a Request whose URL
\* parses: the query parameters merged into the URL's query, no body reader
\* for an empty body.
NewHTTPRequest(req) ==
    [Method |-> req.Method,
     URL |-> [base |-> URLParse(req.URL).base,
              query |-> IF DOMAIN req.QueryParams # {}
                        THEN MergeQuery(ParseQuery(URLParse(req.URL).query),
                                        req.QueryParams, DOMAIN req.QueryParams)
                        ELSE ParseQuery(URLParse(req.URL).query)],
     Body |-> IF req.Body # <<>> THEN <<req.Body>> ELSE Nil]

\* Build, lines 23-46: the URL is parsed, the query parameters are merged
\* into its query, an empty body gives no body reader, and the transport
\* request is created.
BuildBegin ==
    /\ bPc = "start"
    /\ IF URLParseFails(bReq.URL)
       THEN /\ bPc' = "failed" /\ bErr' = "url parse error"
            /\ UNCHANGED <<bHttpReq, bTodo>>
       ELSE /\ bHttpReq' = NewHTTPRequest(bReq)
            /\ bTodo' = DOMAIN bReq.Headers
            /\ bPc' = "headers"
            /\ UNCHANGED bErr
    /\ UNCHANGED <<bReq, bHeader>>
    /\ UNCHANGED <<tvars, pvars, avars, xvars>>

\* Build, lines 49-51: one iteration of the range over Request.Headers, in
\* the order the map yields its keys.
BuildHeaderStep ==
    /\ bPc = "headers"
    /\ \E k \in bTodo :
          /\ bHeader' = HeaderSet(bHeader, k, bReq.Headers[k])
          /\ bTodo' = bTodo \ {k}
    /\ UNCHANGED <<bReq, bPc, bErr, bHttpReq>>
    /\ UNCHANGED <<tvars, pvars, avars, xvars>>

\* Build, lines 54-60: the preset, when there is one, is applied after the
\* header loop; its error is returned with no request.
BuildAuthStep ==
    /\ bPc = "headers" /\ bTodo = {}
    /\ IF bReq.Auth # Nil
       THEN LET a == Apply(bReq.Auth, bHeader)
            IN  IF a.err # "none"
                THEN /\ bPc' = "failed" /\ bErr' = a.err /\ bHttpReq' = Nil
                     /\ UNCHANGED bHeader
                ELSE /\ bPc' = "done" /\ bHeader' = a.header
                     /\ UNCHANGED <<bErr, bHttpReq>>
       ELSE /\ bPc' = "done"
            /\ UNCHANGED <<bHeader, bErr, bHttpReq>>
    /\ UNCHANGED <<bReq, bTodo>>
    /\ UNCHANGED <<tvars, pvars, avars, xvars>>

NextBuilder ==
    \/ BuildBegin
    \/ BuildHeaderStep
    \/ BuildAuthStep

SpecBuilder == InitBuilder /\ [][NextBuilder]_vars

-----------------------------------------------------------------------------
(* request.Executor: Execute calls running concurrently on one Executor    *)

\* Build, lines 49-51: the header maps the range over Request.Headers can
\* leave, one for each order in which the map yields its keys.
RECURSIVE HeaderLoopOutcomes(_, _, _)
HeaderLoopOutcomes(h, headers, todo) ==
    IF todo = {} THEN {h}
    ELSE UNION { HeaderLoopOutcomes(HeaderSet(h, k, headers[k]), headers, todo \ {k}) :
                    k \in todo }

\* What Build returns: the transport request, or the error.
Built(httpReq, err) == [httpReq |-> httpReq, err |-> err]

\* Build, lines 21-61, as the set of results it can return for a Request.
BuildOutcomes(req) ==
    IF URLParseFails(req.URL) THEN {Built(Nil, "url parse error")}
    ELSE { LET a == IF req.Auth # Nil THEN Apply(req.Auth, h) ELSE Applied(h, "none")
               r == NewHTTPRequest(req)
           IN  IF a.err # "none" THEN Built(Nil, a.err)
               ELSE Built([Method |-> r.Method, URL |-> r.URL, Body |-> r.Body,
                           Header |-> a.header], "none") :
             h \in HeaderLoopOutcomes(EmptyMap, req.Headers, DOMAIN req.Headers) }

\* The host of "scheme://host/path".
HostOf(base) == SplitAll(base, <<"/">>)[3]

\* The server a request is sent to: host "d" is down, any other host answers,
\* with 200 and the request echoed for the path "/p", with 404 otherwise.
RoundTrip(httpReq) ==
    IF HostOf(httpReq.URL.base) = <<"d">>
    THEN [httpResp |-> Nil, err |-> "transport error"]
    ELSE [httpResp |-> [StatusCode |->
                            IF SplitAll(httpReq.URL.base, <<"/">>)[4] = <<"p">>
                            THEN 200 ELSE 404,
                        Header |-> EmptyMap,
                        Body |-> <<httpReq>>],
          err |-> "none"]

\* Execute, lines 48-55: the Response made of a transport response (without
\* its Duration, which is a reading of the clock).
NewResponse(httpResp) ==
    [StatusCode |-> httpResp.StatusCode, Headers |-> httpResp.Header,
     Body |-> httpResp.Body, Size |-> Len(httpResp.Body)]

\* What Execute returns.
Executed(resp, err) == [resp |-> resp, err |-> err]

\* Execute run alone on a Request: the results it can return.
ExecuteAlone(req) ==
    { IF b.err # "none" THEN Executed(Nil, b.err)
      ELSE LET r == RoundTrip(b.httpReq)
           IN  IF r.err # "none" THEN Executed(Nil, r.err)
               ELSE Executed(NewResponse(r.httpResp), "none") :
        b \in BuildOutcomes(req) }

\* A transport request kept in one place for all calls: the one built last.
HttpReqOfLatest(calls, c) ==
    LET built == {d \in DOMAIN calls : calls[d].httpReq # Nil}
    IN  calls[CHOOSE d \in built : \A e \in built : e <= d].httpReq

\* Execute, line 28: httpReq, a local of the call.
HttpReqOf(calls, c) == calls[c].httpReq

\* The number of Execute calls running on the Executor.
MaxCalls == 2
Calls == 1..MaxCalls

\* The Requests handed to Execute.
ExecRequest(method, url, headers, query, body, auth) ==
    [Method |-> method, URL |-> url, Headers |-> headers, QueryParams |-> query,
     Body |-> body, Auth |-> auth]
ExecRequests ==
    { ExecRequest(<<"G", "E", "T">>, <<"h", "t", "t", "p", ":", "/", "/", "h", "/", "p">>, EmptyMap, EmptyMap, <<>>, Nil),
      ExecRequest(<<"G", "E", "T">>, <<"h", "t", "t", "p", ":", "/", "/", "h", "/", "q">>, [k \in {<<"x", "-", "a", "p", "i">>} |-> <<"m", "1">>], EmptyMap, <<>>,
                  Preset(<<"b", "1">>, S_bearer, <<>>, <<>>, <<"x", "y", "z">>, <<>>, <<>>, <<>>, <<>>)),
      ExecRequest(<<"P", "O", "S", "T">>, <<"h", "t", "t", "p", ":", "/", "/", "h", "/", "p", "?", "a", "=", "1">>,
                  [k \in {S_Authorization, <<"a", "u", "t", "h", "o", "r", "i", "z", "a", "t", "i", "o", "n">>} |->
                      IF k = S_Authorization THEN <<"m", "1">> ELSE <<"m", "2">>],
                  [k \in {<<"a">>} |-> <<"2">>], <<"b", "o", "d", "y">>, Nil),
      ExecRequest(<<"G", "E", "T">>, <<"h", "t", "!", "t", "p", ":", "/", "/", "h">>, EmptyMap, EmptyMap, <<>>, Nil),
      ExecRequest(<<"G", "E", "T">>, <<"h", "t", "t", "p", ":", "/", "/", "d", "/", "p">>, EmptyMap, EmptyMap, <<>>, Nil),
      ExecRequest(<<"G", "E", "T">>, <<"h", "t", "t", "p", ":", "/", "/", "h", "/", "p">>, EmptyMap, EmptyMap, <<>>,
                  Preset(<<"b", "3">>, S_bearer, <<>>, <<>>, <<>>, <<>>, <<>>, <<>>, <<>>)) }

\* NewExecutor, and every call about to enter Execute with its Request.
InitExecutor ==
    /\ eCalls \in [Calls -> { [req |-> r, pc |-> "start", httpReq |-> Nil,
                               httpResp |-> Nil, resp |-> Nil, err |-> "none"] :
                              r \in ExecRequests }]
    /\ eIdle = 0
    /\ CoreIdle /\ StorageIdle /\ AuthManagerIdle /\ WorkspaceIdle

\* Execute, lines 27-31, of call c: the request is built; a Build error is
\* returned.
ExecuteBuild(c) ==
    /\ eCalls[c].pc = "start"
    /\ \E b \in BuildOutcomes(eCalls[c].req) :
          eCalls' = [eCalls EXCEPT ![c] =
                        IF b.err # "none"
                        THEN [@ EXCEPT !.pc = "done", !.err = b.err]
                        ELSE [@ EXCEPT !.pc = "built", !.httpReq = b.httpReq]]
    /\ UNCHANGED eIdle
    /\ UNCHANGED exceptE

\* Execute, lines 33-39, of call c: client.Do sends the call's request on an
\* idle connection of the pool or on a new one; a transport error is returned.
ExecuteDo(c) ==
    /\ eCalls[c].pc = "built"
    /\ eIdle' = IF eIdle > 0 THEN eIdle - 1 ELSE eIdle
    /\ LET r == RoundTrip(HttpReqOf(eCalls, c))
       IN  eCalls' = [eCalls EXCEPT ![c] =
                         IF r.err # "none"
                         THEN [@ EXCEPT !.pc = "done", !.err = r.err]
                         ELSE [@ EXCEPT !.pc = "sent", !.httpResp = r.httpResp]]
    /\ UNCHANGED exceptE

\* Execute, lines 40-57, of call c: the body is read and closed, which gives
\* the connection back to the pool, and the Response returned.
ExecuteRead(c) ==
    /\ eCalls[c].pc = "sent"
    /\ eIdle' = eIdle + 1
    /\ eCalls' = [eCalls EXCEPT ![c] =
                     [@ EXCEPT !.pc = "done", !.resp = NewResponse(eCalls[c].httpResp)]]
    /\ UNCHANGED exceptE

ExecuteBuildStep == \E c \in Calls : ExecuteBuild(c)
ExecuteDoStep == \E c \in Calls : ExecuteDo(c)
ExecuteReadStep == \E c \in Calls : ExecuteRead(c)

NextExecutor ==
    \/ ExecuteBuildStep
    \/ ExecuteDoStep
    \/ ExecuteReadStep

SpecExecutor == InitExecutor /\ [][NextExecutor]_vars

-----------------------------------------------------------------------------
(* storage.Manager: Save, Load, List, Delete and Exists on the file tree    *)

\* A node of the file tree: a directory, or a file with its bytes.
Node(kind, data) == [kind |-> kind, data |-> data]
Dir == Node("dir", <<>>)

\* What a file operation returns.
FSResult(fs, data, err) == [fs |-> fs, data |-> data, err |-> err]

\* filepath.Clean on the elements of a path below the workspace root: empty
\* elements and "." are dropped, ".." removes the element before it.
RECURSIVE CleanLoop(_, _)
CleanLoop(done, todo) ==
    IF todo = <<>> THEN done
    ELSE LET e == Head(todo)
         IN  IF e = <<>> \/ e = <<".">> THEN CleanLoop(done, Tail(todo))
             ELSE IF e = <<".", ".">> /\ done # <<>> /\ done[Len(done)] # <<".", ".">>
                  THEN CleanLoop(SubSeq(done, 1, Len(done) - 1), Tail(todo))
                  ELSE CleanLoop(Append(done, e), Tail(todo))
Clean(elems) == CleanLoop(<<>>, elems)

\* filepath.Join(dir, name): the elements joined with "/" and cleaned.
Join(dir, name) == Clean(dir \o SplitAll(name, <<"/">>))

\* os.Stat: the path is there.
Stat(fs, path) == path = <<>> \/ path \in DOMAIN fs
IsDir(fs, path) == path = <<>> \/ (path \in DOMAIN fs /\ fs[path].kind = "dir")

\* os.MkdirAll: every missing directory of the path is made; a file on the
\* way is an error.
RECURSIVE MkdirAll(_, _, _)
MkdirAll(fs, path, n) ==
    IF n > Len(path) THEN FSResult(fs, <<>>, "none")
    ELSE LET d == SubSeq(path, 1, n)
         IN  IF d \in DOMAIN fs
             THEN IF fs[d].kind = "dir" THEN MkdirAll(fs, path, n + 1)
                  ELSE FSResult(fs, <<>>, "not a directory")
             ELSE MkdirAll(MapSet(fs, d, Dir), path, n + 1)

\* os.WriteFile: the file is created or truncated in a directory that is there.
WriteFile(fs, path, data) ==
    IF path = <<>> \/ ~IsDir(fs, SubSeq(path, 1, Len(path) - 1))
    THEN FSResult(fs, <<>>, "no such file or directory")
    ELSE IF IsDir(fs, path) THEN FSResult(fs, <<>>, "is a directory")
    ELSE FSResult(MapSet(fs, path, Node("file", data)), <<>>, "none")

\* os.ReadFile
ReadFile(fs, path) ==
    IF ~Stat(fs, path) THEN FSResult(fs, <<>>, "no such file or directory")
    ELSE IF IsDir(fs, path) THEN FSResult(fs, <<>>, "is a directory")
    ELSE FSResult(fs, fs[path].data, "none")

\* os.Remove: a file, or a directory with nothing in it, is removed.
Remove(fs, path) ==
    IF path = <<>> \/ path \notin DOMAIN fs
    THEN FSResult(fs, <<>>, "no such file or directory")
    ELSE IF \E q \in DOMAIN fs : Len(q) > Len(path) /\ SubSeq(q, 1, Len(path)) = path
    THEN FSResult(fs, <<>>, "directory not empty")
    ELSE FSResult(MapRemove(fs, path), <<>>, "none")

\* The byte order of the characters of file names.
CharOrder == <<".", "/">> \o Digits \o Uppers \o <<"_">> \o Lowers
CharRank(ch) == IF \E i \in 1..Len(CharOrder) : CharOrder[i] = ch
                THEN CHOOSE i \in 1..Len(CharOrder) : CharOrder[i] = ch
                ELSE 0
RECURSIVE NameLess(_, _)
NameLess(a, b) ==
    IF a = <<>> THEN b # <<>>
    ELSE IF b = <<>> THEN FALSE
    ELSE IF Head(a) = Head(b) THEN NameLess(Tail(a), Tail(b))
    ELSE CharRank(Head(a)) < CharRank(Head(b))

\* os.ReadDir: the entries directly inside the directory, sorted by file name.
RECURSIVE SortNames(_)
SortNames(names) ==
    IF names = {} THEN <<>>
    ELSE LET m == CHOOSE x \in names : \A y \in names \ {x} : NameLess(x, y)
         IN  <<m>> \o SortNames(names \ {m})
ReadDir(fs, dir) ==
    SortNames({ q[Len(q)] : q \in { x \in DOMAIN fs :
                    Len(x) = Len(dir) + 1 /\ SubSeq(x, 1, Len(dir)) = dir } })

\* filepath.Ext: the suffix from the last dot of the name on.
RECURSIVE Ext(_)
Ext(name) ==
    IF name = <<>> THEN <<>>
    ELSE IF \E i \in 1..Len(name) : name[i] = "."
    THEN LET i == CHOOSE k \in 1..Len(name) :
                      name[k] = "." /\ \A j \in (k + 1)..Len(name) : name[j] # "."
         IN  SubSeq(name, i, Len(name))
    ELSE <<>>

\* storage.SavedCall, types.go lines 6-15.
SavedCall(name, method, url, headers, queryParams, body, description, createdAt) ==
    [Name |-> name, Method |-> method, URL |-> url, Headers |-> headers,
     QueryParams |-> queryParams, Body |-> body, Description |-> description,
     CreatedAt |-> createdAt]

\* yaml.Marshal of a SavedCall: the fields under the keys of their yaml tags,
\* in the order of the struct; a nil map is written as an empty mapping.
MarshalSavedCall(call) ==
    << <<"name", call.Name>>, <<"method", call.Method>>, <<"url", call.URL>>,
       <<"headers", call.Headers>>, <<"queryParams", call.QueryParams>>,
       <<"body", call.Body>>, <<"description", call.Description>>,
       <<"createdAt", call.CreatedAt>> >>

\* The value a document holds under a key, or the zero value.
YAMLGet(doc, key) ==
    IF \E i \in 1..Len(doc) : doc[i][1] = key
    THEN doc[CHOOSE i \in 1..Len(doc) : doc[i][1] = key][2]
    ELSE <<>>

\* The content of a file that is not a YAML document, and what yaml.Unmarshal
\* accepts.
NotYAML == << <<"%", <<>>>> >>
IsYAML(data) == \A i \in 1..Len(data) : data[i][1] # "%"

\* The time a record read now would get, were its createdAt made again.
NowStamp == <<"t", "9">>

\* A SavedCall read with its createdAt made again.
UnmarshalSavedCallStampsNow(doc) ==
    SavedCall(YAMLGet(doc, "name"), YAMLGet(doc, "method"), YAMLGet(doc, "url"),
              YAMLGet(doc, "headers"), YAMLGet(doc, "queryParams"),
              YAMLGet(doc, "body"), YAMLGet(doc, "description"), NowStamp)

\* yaml.Unmarshal into a SavedCall: each field from the key of its yaml tag.
UnmarshalSavedCall(doc) ==
    SavedCall(YAMLGet(doc, "name"), YAMLGet(doc, "method"), YAMLGet(doc, "url"),
              YAMLGet(doc, "headers"), YAMLGet(doc, "queryParams"),
              YAMLGet(doc, "body"), YAMLGet(doc, "description"),
              YAMLGet(doc, "createdAt"))

\* types.go lines 38-47: .gosh/calls, made if it is not there.
CallsDir == <<<<".", "g", "o", "s", "h">>, <<"c", "a", "l", "l", "s">>>>
GetCallsDir(fs) == MkdirAll(fs, CallsDir, 1)

\* types.go lines 50-52.
GetCallPath(name) == Join(CallsDir, name \o <<".", "y", "a", "m", "l">>)

\* What a storage operation returned: its name and argument, the calls it
\* was given or returned, the boolean it returned (for Delete: whether the
\* name existed when it was called) and its error.
Returned(op, name, calls, found, err) ==
    [op |-> op, name |-> name, calls |-> calls, found |-> found, err |-> err]

\* Manager.Save, lines 22-40, on a file tree.
SaveOn(fs, call) ==
    LET d == GetCallsDir(fs)
    IN  IF d.err # "none" THEN d
        ELSE WriteFile(d.fs, Join(CallsDir, call.Name \o <<".", "y", "a", "m", "l">>),
                       MarshalSavedCall(call))

\* Manager.Load, lines 43-57, on a file tree: the call, or the error.
LoadOn(fs, name) ==
    LET r == ReadFile(fs, GetCallPath(name))
    IN  IF r.err # "none" THEN [call |-> Nil, err |-> "call not found"]
        ELSE IF ~IsYAML(r.data) THEN [call |-> Nil, err |-> "yaml: cannot unmarshal"]
        ELSE [call |-> UnmarshalSavedCall(r.data), err |-> "none"]

\* Manager.List, lines 71-91: the loop over the directory entries.
RECURSIVE ListLoop(_, _, _)
ListLoop(fs, entries, calls) ==
    IF entries = <<>> THEN calls
    ELSE LET e == Head(entries)
             name == SubSeq(e, 1, Len(e) - 5)
         IN  IF IsDir(fs, Append(CallsDir, e)) \/ Ext(e) # <<".", "y", "a", "m", "l">>
             THEN ListLoop(fs, Tail(entries), calls)
             ELSE LET l == LoadOn(fs, name)
                  IN  IF l.err # "none" THEN ListLoop(fs, Tail(entries), calls)
                      ELSE ListLoop(fs, Tail(entries), Append(calls, l.call))

\* Manager.Exists, lines 106-110.
ExistsOn(fs, name) == Stat(fs, GetCallPath(name))

\* The names calls are saved, loaded and deleted under.
CallNames == {<<"c">>, <<"d">>, <<>>, <<"x", "/", ".", ".", "/", "c">>, <<".", ".", "/", "x">>, <<"a", "/", "b">>}

\* The calls handed to Save.
SavedCalls ==
    { SavedCall(n, <<"G", "E", "T">>, <<"u">>, EmptyMap, EmptyMap, <<>>, <<>>, <<"t", "1">>) : n \in CallNames }
    \cup { SavedCall(<<"c">>, <<"P", "O", "S", "T">>, <<"h", "/", "{", "i", "d", "}">>, [k \in {<<"k">>} |-> <<"v">>],
                     [k \in {<<"q">>} |-> <<"1">>], <<"b", "0">>, <<"a", "b", "o", "u", "t">>, <<"t", "2">>) }

\* The call the operation that returned last has saved, if it was a Save
\* that succeeded.
SavedBefore ==
    IF sLast # Nil /\ sLast.op = "Save" /\ sLast.err = "none" THEN sLast.calls[1]
    ELSE Nil

\* A store whose file d.yaml is not a YAML document.
DamagedStore ==
    MapSet(MkdirAll(EmptyMap, CallsDir, 1).fs, GetCallPath(<<"d">>), Node("file", NotYAML))

\* NewManager on a workspace that has no .gosh directory, an empty store, or
\* a store with a file that does not decode.
InitStorage ==
    /\ sFS \in {EmptyMap, MkdirAll(EmptyMap, CallsDir, 1).fs, DamagedStore}
    /\ sLast = Nil
    /\ sPrevSave = Nil
    /\ sSaved = {}
    /\ sDeleted = {}
    /\ CoreIdle /\ ExecutorIdle /\ AuthManagerIdle /\ WorkspaceIdle

\* Manager.Save, lines 22-40.
StoreSave ==
    \E call \in SavedCalls :
        LET r == SaveOn(sFS, call)
        IN  /\ sFS' = r.fs
            /\ sLast' = Returned("Save", call.Name, <<call>>, FALSE, r.err)
            /\ sPrevSave' = SavedBefore
            /\ sSaved' = IF r.err = "none" THEN sSaved \cup {call.Name} ELSE sSaved
            /\ sDeleted' = IF r.err = "none" THEN sDeleted \ {call.Name} ELSE sDeleted
            /\ UNCHANGED exceptS

\* Manager.Load, lines 43-57.
StoreLoad ==
    \E name \in CallNames :
        LET l == LoadOn(sFS, name)
        IN  /\ sLast' = Returned("Load", name,
                                 IF l.err = "none" THEN <<l.call>> ELSE <<>>,
                                 FALSE, l.err)
            /\ sPrevSave' = SavedBefore
            /\ UNCHANGED <<sFS, sSaved, sDeleted>>
            /\ UNCHANGED exceptS

\* Manager.List, lines 60-92.
StoreList ==
    LET d == GetCallsDir(sFS)
    IN  /\ sFS' = d.fs
        /\ sLast' = IF d.err # "none"
                    THEN Returned("List", <<>>, <<>>, FALSE, d.err)
                    ELSE Returned("List", <<>>,
                                  ListLoop(d.fs, ReadDir(d.fs, CallsDir), <<>>),
                                  FALSE, "none")
        /\ sPrevSave' = SavedBefore
        /\ UNCHANGED <<sSaved, sDeleted>>
        /\ UNCHANGED exceptS

\* Manager.Delete, lines 95-103.
StoreDelete ==
    \E name \in CallNames :
        LET r == Remove(sFS, GetCallPath(name))
        IN  /\ sFS' = r.fs
            /\ sLast' = Returned("Delete", name, <<>>, ExistsOn(sFS, name),
                                 IF r.err # "none" THEN "failed to delete call"
                                 ELSE "none")
            /\ sPrevSave' = SavedBefore
            /\ sSaved' = IF r.err = "none" THEN sSaved \ {name} ELSE sSaved
            /\ sDeleted' = IF r.err = "none" THEN sDeleted \cup {name} ELSE sDeleted
            /\ UNCHANGED exceptS

\* Manager.Exists, lines 106-110.
StoreExists ==
    \E name \in CallNames :
        /\ sLast' = Returned("Exists", name, <<>>, ExistsOn(sFS, name), "none")
        /\ sPrevSave' = SavedBefore
        /\ UNCHANGED <<sFS, sSaved, sDeleted>>
        /\ UNCHANGED exceptS

NextStorage ==
    \/ StoreSave
    \/ StoreLoad
    \/ StoreList
    \/ StoreDelete
    \/ StoreExists

SpecStorage == InitStorage /\ [][NextStorage]_vars

-----------------------------------------------------------------------------
(* auth.Manager: Load, Save, Add and Remove of Managers on one workspace    *)

\* .gosh/auth.yaml: whether it is there, whether its bytes are YAML, the
\* document, the permission bits, and the Manager that wrote it last.
AuthFile(exists, valid, data, mode, by) ==
    [exists |-> exists, valid |-> valid, data |-> data, mode |-> mode, by |-> by]

\* yaml.Marshal of an AuthPreset: the fields under their yaml tags.
MarshalPreset(p) ==
    << <<"name", p.Name>>, <<"type", p.Type>>, <<"username", p.Username>>,
       <<"password", p.Password>>, <<"token", p.Token>>, <<"header", p.Header>>,
       <<"prefix", p.Prefix>>, <<"value", p.Value>>, <<"headers", p.Headers>> >>

\* An AuthPreset read with its token left out.
UnmarshalPresetDropsToken(doc) ==
    Preset(YAMLGet(doc, "name"), YAMLGet(doc, "type"), YAMLGet(doc, "username"),
           YAMLGet(doc, "password"), <<>>, YAMLGet(doc, "header"),
           YAMLGet(doc, "prefix"), YAMLGet(doc, "value"), YAMLGet(doc, "headers"))

\* yaml.Unmarshal into an AuthPreset.
UnmarshalPreset(doc) ==
    Preset(YAMLGet(doc, "name"), YAMLGet(doc, "type"), YAMLGet(doc, "username"),
           YAMLGet(doc, "password"), YAMLGet(doc, "token"), YAMLGet(doc, "header"),
           YAMLGet(doc, "prefix"), YAMLGet(doc, "value"), YAMLGet(doc, "headers"))

\* Save, lines 56-60: yaml.Marshal of AuthConfig{Presets: m.presets}.
MarshalAuthConfig(presets) ==
    << <<"presets", [n \in DOMAIN presets |-> MarshalPreset(presets[n])]>> >>

\* Load, lines 36-43: the presets of the document; a document without the
\* "presets" key leaves the Manager's presets as they are.
LoadedPresets(doc, presets) ==
    IF \E i \in 1..Len(doc) : doc[i][1] = "presets"
    THEN LET d == YAMLGet(doc, "presets")
         IN  [n \in DOMAIN d |-> UnmarshalPreset(d[n])]
    ELSE presets

\* os.WriteFile(path, data, perm) always setting the mode to perm.
WriteAuthFileChmods(file, data, perm, by) ==
    AuthFile(TRUE, TRUE, data, perm, by)

\* os.WriteFile(path, data, perm): a file that is there is truncated and
\* keeps its mode; perm is the mode of a file that is created.
WriteAuthFile(file, data, perm, by) ==
    AuthFile(TRUE, TRUE, data, IF file.exists THEN file.mode ELSE perm, by)

\* A Manager: its presets, whether it has done nothing since NewManager, and
\* whether every Add, Remove and Save it ran returned nil.
ManagerState(presets, fresh, allOk) ==
    [presets |-> presets, fresh |-> fresh, allOk |-> allOk]

\* NewManager, lines 18-23.
NewManager == ManagerState(EmptyMap, TRUE, TRUE)

\* What a Manager operation returned.
MgrReturned(mgr, op, fresh, err) == [mgr |-> mgr, op |-> op, fresh |-> fresh, err |-> err]

Managers == {1, 2}

\* The presets handed to Add, and the names handed to Remove.
MgrPresets ==
    { Preset(<<"a">>, <<"b", "e", "a", "r", "e", "r">>, <<>>, <<>>, <<"t", "1">>, <<>>, <<>>, <<>>, <<>>),
      Preset(<<"a">>, <<"b", "e", "a", "r", "e", "r">>, <<>>, <<>>, <<"t", "2">>, <<>>, <<>>, <<>>, <<>>),
      Preset(<<"b">>, <<"b", "a", "s", "i", "c">>, <<"j", "o", "h", "n">>, <<"p", "w">>, <<>>, <<>>, <<>>, <<>>, <<>>),
      Preset(<<>>, <<"b", "e", "a", "r", "e", "r">>, <<>>, <<>>, <<"t", "1">>, <<>>, <<>>, <<>>, <<>>),
      Preset(<<"c">>, <<>>, <<>>, <<>>, <<>>, <<>>, <<>>, <<>>, <<>>) }
MgrNames == {<<"a">>, <<"b">>}

\* The auth file a workspace can hold before any Manager runs: none, one
\* written with mode 0600 or checked out with mode 0644, an empty one, or one
\* that is not YAML.
AuthFileInits ==
    { AuthFile(FALSE, TRUE, <<>>, "none", 0),
      AuthFile(TRUE, TRUE, MarshalAuthConfig([n \in {<<"b">>} |->
                   Preset(<<"b">>, <<"b", "a", "s", "i", "c">>, <<"j", "o", "h", "n">>, <<"p", "w">>, <<>>, <<>>, <<>>, <<>>, <<>>)]),
               "0600", 0),
      AuthFile(TRUE, TRUE, MarshalAuthConfig(EmptyMap), "0644", 0),
      AuthFile(TRUE, TRUE, <<>>, "0600", 0),
      AuthFile(TRUE, FALSE, <<>>, "0600", 0) }

InitAuthManager ==
    /\ mFile \in AuthFileInits
    /\ mMgr = [i \in Managers |-> NewManager]
    /\ mLast = Nil
    /\ CoreIdle /\ ExecutorIdle /\ StorageIdle /\ WorkspaceIdle

\* NewManager, lines 18-23: Manager i is made anew on the workspace; a file
\* the Manager it replaces wrote is from now on the file of no Manager.
MgrNew(i) ==
    /\ mMgr' = [mMgr EXCEPT ![i] = NewManager]
    /\ mLast' = MgrReturned(i, "New", mMgr[i].fresh, "none")
    /\ mFile' = [mFile EXCEPT !.by = IF @ = i THEN 0 ELSE @]
    /\ UNCHANGED exceptM

\* Load, lines 26-46.
MgrLoad(i) ==
    /\ LET err == IF ~mFile.exists THEN "none"
                  ELSE IF ~mFile.valid THEN "failed to parse auth config"
                  ELSE "none"
           presets == IF mFile.exists /\ mFile.valid
                      THEN LoadedPresets(mFile.data, mMgr[i].presets)
                      ELSE mMgr[i].presets
       IN  /\ mMgr' = [mMgr EXCEPT ![i] = ManagerState(presets, FALSE, @.allOk)]
           /\ mLast' = MgrReturned(i, "Load", mMgr[i].fresh, err)
    /\ UNCHANGED mFile
    /\ UNCHANGED exceptM

\* Save, lines 49-70, of the presets given: the outcomes are success, a
\* failure before the file is opened, and a failure after it was truncated.
SaveOutcomes(file, presets, by) ==
    { [file |-> WriteAuthFile(file, MarshalAuthConfig(presets), "0600", by),
       err |-> "none"],
      [file |-> file, err |-> "failed to write auth config"],
      [file |-> WriteAuthFile(file, <<>>, "0600", by),
       err |-> "failed to write auth config"] }

\* Save, lines 49-70.
MgrSave(i) ==
    /\ \E o \in SaveOutcomes(mFile, mMgr[i].presets, i) :
          /\ mFile' = o.file
          /\ mLast' = MgrReturned(i, "Save", mMgr[i].fresh, o.err)
          /\ mMgr' = [mMgr EXCEPT ![i] =
                         ManagerState(@.presets, FALSE, @.allOk /\ o.err = "none")]
    /\ UNCHANGED exceptM

\* The presets of a Manager whose mutation is undone when Save fails.
RolledBackPresets(mutated, before, err) == IF err = "none" THEN mutated ELSE before

\* Add line 90-91 and Remove lines 99-100: the map is changed first and the
\* result of Save is returned as it is, so the change stays whatever Save
\* returns.
KeptPresets(mutated, before, err) == mutated

\* Add, lines 82-92.
MgrAdd(i) ==
    /\ \E p \in MgrPresets :
          IF p.Name = <<>> \/ p.Type = <<>>
          THEN /\ mMgr' = [mMgr EXCEPT ![i] = ManagerState(@.presets, FALSE, FALSE)]
               /\ mLast' = MgrReturned(i, "Add", mMgr[i].fresh,
                                       IF p.Name = <<>>
                                       THEN "preset name cannot be empty"
                                       ELSE "preset type cannot be empty")
               /\ UNCHANGED mFile
          ELSE LET presets == MapSet(mMgr[i].presets, p.Name, p)
               IN  \E o \in SaveOutcomes(mFile, presets, i) :
                       /\ mFile' = o.file
                       /\ mMgr' = [mMgr EXCEPT ![i] =
                                      ManagerState(KeptPresets(presets, @.presets, o.err),
                                                   FALSE, @.allOk /\ o.err = "none")]
                       /\ mLast' = MgrReturned(i, "Add", mMgr[i].fresh, o.err)
    /\ UNCHANGED exceptM

\* Remove, lines 95-101.
MgrRemove(i) ==
    /\ \E name \in MgrNames :
          IF name \notin DOMAIN mMgr[i].presets
          THEN /\ mMgr' = [mMgr EXCEPT ![i] = ManagerState(@.presets, FALSE, FALSE)]
               /\ mLast' = MgrReturned(i, "Remove", mMgr[i].fresh,
                                       "auth preset not found")
               /\ UNCHANGED mFile
          ELSE LET presets == MapRemove(mMgr[i].presets, name)
               IN  \E o \in SaveOutcomes(mFile, presets, i) :
                       /\ mFile' = o.file
                       /\ mMgr' = [mMgr EXCEPT ![i] =
                                      ManagerState(KeptPresets(presets, @.presets, o.err),
                                                   FALSE, @.allOk /\ o.err = "none")]
                       /\ mLast' = MgrReturned(i, "Remove", mMgr[i].fresh, o.err)
    /\ UNCHANGED exceptM

ManagerNew == \E i \in Managers : MgrNew(i)
ManagerLoad == \E i \in Managers : MgrLoad(i)
ManagerSave == \E i \in Managers : MgrSave(i)
ManagerAdd == \E i \in Managers : MgrAdd(i)
ManagerRemove == \E i \in Managers : MgrRemove(i)

NextAuthManager ==
    \/ ManagerNew
    \/ ManagerLoad
    \/ ManagerSave
    \/ ManagerAdd
    \/ ManagerRemove

SpecAuthManager == InitAuthManager /\ [][NextAuthManager]_vars

-----------------------------------------------------------------------------
(* config.findWorkspaceRoot: the walk from the start directory upwards      *)

\* The directories from the filesystem root (1) down to the start directory
\* (the last), each with the markers it contains.
MaxDepth == 3
Markers == {".gosh.yaml", ".git"}
Trees == UNION { [1..n -> SUBSET Markers] : n \in 1..MaxDepth }

\* os.Stat(filepath.Join(current, marker)) returns no error.
HasMarker(tree, dir, marker) == marker \in tree[dir]

\* filepath.Dir(current): the parent, the root being its own parent.
ParentDir(dir) == IF dir = 1 THEN 1 ELSE dir - 1

\* findWorkspaceRoot is about to run in the start directory of a tree.
InitWorkspace ==
    /\ wTree \in Trees
    /\ wCur = 0
    /\ wPc = "start"
    /\ wRet = 0
    /\ CoreIdle /\ ExecutorIdle /\ StorageIdle /\ AuthManagerIdle

\* findWorkspaceRoot, line 134: current := startPath.
FindBegin ==
    /\ wPc = "start"
    /\ wCur' = Len(wTree)
    /\ wPc' = "gosh"
    /\ UNCHANGED <<wTree, wRet>>
    /\ UNCHANGED exceptW

\* findWorkspaceRoot, lines 138-141: .gosh.yaml in the current directory.
FindCheckGosh ==
    /\ wPc = "gosh"
    /\ IF HasMarker(wTree, wCur, ".gosh.yaml")
       THEN wRet' = wCur /\ wPc' = "done"
       ELSE wRet' = wRet /\ wPc' = "git"
    /\ UNCHANGED <<wTree, wCur>>
    /\ UNCHANGED exceptW

\* findWorkspaceRoot, lines 144-147: .git in the current directory.
FindCheckGit ==
    /\ wPc = "git"
    /\ IF HasMarker(wTree, wCur, ".git")
       THEN wRet' = wCur /\ wPc' = "done"
       ELSE wRet' = wRet /\ wPc' = "parent"
    /\ UNCHANGED <<wTree, wCur>>
    /\ UNCHANGED exceptW

\* findWorkspaceRoot, lines 149-154: up to the parent, or the start directory
\* returned at the filesystem root.
FindParent ==
    /\ wPc = "parent"
    /\ IF ParentDir(wCur) = wCur
       THEN wRet' = Len(wTree) /\ wPc' = "done" /\ wCur' = wCur
       ELSE wRet' = wRet /\ wPc' = "gosh" /\ wCur' = ParentDir(wCur)
    /\ UNCHANGED wTree
    /\ UNCHANGED exceptW

NextWorkspace ==
    \/ FindBegin
    \/ FindCheckGosh
    \/ FindCheckGit
    \/ FindParent

SpecWorkspace == InitWorkspace /\ [][NextWorkspace]_vars

-----------------------------------------------------------------------------
(* auth.Manager.Save of two Managers at once: os.WriteFile opens the file    *)
(* with O_TRUNC, writes the bytes at offset 0 and closes it                 *)

NL == <<"\n">>

\* A string scalar as yaml.Marshal writes it: the empty string is quoted.
YAMLScalar(v) == IF v = <<>> THEN <<"\"", "\"">> ELSE v

\* One field of a preset, indented below the preset's key.
FieldText(key, v) == <<" ", " ", " ", " ", " ", " ", " ", " ">> \o key \o <<":", " ">> \o YAMLScalar(v) \o NL

\* yaml.Marshal of one entry of AuthConfig.Presets: the key, then the nine
\* fields of the AuthPreset under their yaml tags.
PresetText(p) ==
    <<" ", " ", " ", " ">> \o p.Name \o <<":">> \o NL
    \o FieldText(<<"n", "a", "m", "e">>, p.Name) \o FieldText(<<"t", "y", "p", "e">>, p.Type)
    \o FieldText(<<"u", "s", "e", "r", "n", "a", "m", "e">>, p.Username) \o FieldText(<<"p", "a", "s", "s", "w", "o", "r", "d">>, p.Password)
    \o FieldText(<<"t", "o", "k", "e", "n">>, p.Token) \o FieldText(<<"h", "e", "a", "d", "e", "r">>, p.Header)
    \o FieldText(<<"p", "r", "e", "f", "i", "x">>, p.Prefix) \o FieldText(<<"v", "a", "l", "u", "e">>, p.Value)
    \o <<" ", " ", " ", " ", " ", " ", " ", " ", "h", "e", "a", "d", "e", "r", "s", ":", " ", "[", "]">> \o NL

\* Save, lines 56-60: the bytes of yaml.Marshal(AuthConfig{Presets: presets}),
\* the entries in the order of their keys.
MarshalText(presets) ==
    IF DOMAIN presets = {} THEN <<"p", "r", "e", "s", "e", "t", "s", ":", " ", "{", "}">> \o NL
    ELSE LET names == SortNames(DOMAIN presets)
         IN  <<"p", "r", "e", "s", "e", "t", "s", ":">> \o NL \o Concat([k \in 1..Len(names) |-> PresetText(presets[names[k]])])

\* The presets the two Managers add, and the preset sets a file can hold.
RacePresets ==
    { Preset(<<"a">>, <<"b", "e", "a", "r", "e", "r">>, <<>>, <<>>, <<"t", "1">>, <<>>, <<>>, <<>>, <<>>),
      Preset(<<"b">>, <<"b", "e", "a", "r", "e", "r">>, <<>>, <<>>, <<"t", "2">>, <<>>, <<>>, <<>>, <<>>),
      Preset(<<"b">>, <<"b", "a", "s", "i", "c">>, <<"j", "o", "h", "n">>, <<"p", "w">>, <<>>, <<>>, <<>>, <<>>, <<>>) }
RaceSets ==
    UNION { { m \in [names -> RacePresets] : \A n \in names : m[n].Name = n }
            : names \in SUBSET { p.Name : p \in RacePresets } }

\* Load, lines 28-43, of the bytes of the file: the presets, or the error of
\* yaml.Unmarshal. A file of no bytes decodes to a nil map.
UnmarshalText(bytes, presets) ==
    IF bytes = <<>> THEN [presets |-> presets, err |-> "none"]
    ELSE IF \E m \in RaceSets : MarshalText(m) = bytes
    THEN [presets |-> CHOOSE m \in RaceSets : MarshalText(m) = bytes, err |-> "none"]
    ELSE [presets |-> presets, err |-> "failed to parse auth config"]

\* A Manager in the middle of Load, Add or Remove: its presets, the bytes
\* Save has marshalled, and the step it is at.
RacingManager(presets, buf, pc) == [presets |-> presets, buf |-> buf, pc |-> pc]

InitAuthRace ==
    /\ mFile \in { AuthFile(FALSE, TRUE, <<>>, "none", 0),
                   AuthFile(TRUE, TRUE, MarshalText([n \in {<<"b">>} |->
                       Preset(<<"b">>, <<"b", "a", "s", "i", "c">>, <<"j", "o", "h", "n">>, <<"p", "w">>, <<>>, <<>>, <<>>, <<>>, <<>>)]),
                            "0600", 0) }
    /\ mMgr = [i \in Managers |-> RacingManager(EmptyMap, <<>>, "load")]
    /\ mLast = Nil
    /\ CoreIdle /\ ExecutorIdle /\ StorageIdle /\ WorkspaceIdle

\* Load, lines 26-46.
RaceLoadOf(i) ==
    /\ mMgr[i].pc = "load"
    /\ LET r == IF mFile.exists THEN UnmarshalText(mFile.data, mMgr[i].presets)
                ELSE [presets |-> mMgr[i].presets, err |-> "none"]
       IN  mMgr' = [mMgr EXCEPT ![i] =
                       RacingManager(r.presets, <<>>,
                                     IF r.err = "none" THEN "mutate" ELSE "done")]
    /\ UNCHANGED <<mFile, mLast>>
    /\ UNCHANGED exceptM

\* Add, lines 82-92, or Remove, lines 95-101, up to the call of os.WriteFile
\* in Save, line 65: the map is changed and marshalled.
RaceMutateOf(i) ==
    /\ mMgr[i].pc = "mutate"
    /\ \E presets \in { MapSet(mMgr[i].presets, p.Name, p) : p \in RacePresets }
                      \cup { MapRemove(mMgr[i].presets, n) : n \in DOMAIN mMgr[i].presets } :
          mMgr' = [mMgr EXCEPT ![i] = RacingManager(presets, MarshalText(presets), "open")]
    /\ UNCHANGED <<mFile, mLast>>
    /\ UNCHANGED exceptM

\* os.WriteFile, line 65: OpenFile with O_WRONLY|O_CREATE|O_TRUNC.
RaceOpenOf(i) ==
    /\ mMgr[i].pc = "open"
    /\ mFile' = AuthFile(TRUE, TRUE, <<>>, IF mFile.exists THEN mFile.mode ELSE "0600", mFile.by)
    /\ mMgr' = [mMgr EXCEPT ![i].pc = "write"]
    /\ UNCHANGED mLast
    /\ UNCHANGED exceptM

\* os.WriteFile, line 65: Write of the bytes at offset 0 of the open file,
\* over what the file holds by then, and Close.
RaceWriteOf(i) ==
    /\ mMgr[i].pc = "write"
    /\ mFile' = [mFile EXCEPT
                    !.data = mMgr[i].buf \o SubSeq(@, Len(mMgr[i].buf) + 1, Len(@)),
                    !.by = i]
    /\ mMgr' = [mMgr EXCEPT ![i].pc = "done"]
    /\ UNCHANGED mLast
    /\ UNCHANGED exceptM

RaceLoad == \E i \in Managers : RaceLoadOf(i)
RaceMutate == \E i \in Managers : RaceMutateOf(i)
RaceOpen == \E i \in Managers : RaceOpenOf(i)
RaceWrite == \E i \in Managers : RaceWriteOf(i)

NextAuthRace ==
    \/ RaceLoad
    \/ RaceMutate
    \/ RaceOpen
    \/ RaceWrite

SpecAuthRace == InitAuthRace /\ [][NextAuthRace]_vars

-----------------------------------------------------------------------------
(* app.App: main, NewApp, Run and the handlers                             *)

\* substituteEnvVars, lines 1233-1243: every match of `\$\{([^}]+)\}` is
\* replaced by the variable's value, a match of an unknown name kept as it is.
RECURSIVE SubstituteEnvVars(_, _)
SubstituteEnvVars(text, env) ==
    IF Len(text) < 2 THEN text
    ELSE IF text[1] = "$" /\ text[2] = "{"
         THEN LET j == FirstClose(text, 3)
              IN  IF j <= 3 THEN <<text[1]>> \o SubstituteEnvVars(Tail(text), env)
                  ELSE LET name == SubSeq(text, 3, j - 1)
                       IN  (IF name \in DOMAIN env THEN env[name]
                            ELSE SubSeq(text, 1, j))
                           \o SubstituteEnvVars(SubSeq(text, j + 1, Len(text)), env)
         ELSE <<text[1]>> \o SubstituteEnvVars(Tail(text), env)

\* substituteEnvVarsInMap, lines 1246-1252.
SubstituteEnvVarsInMap(m, env) == [k \in DOMAIN m |-> SubstituteEnvVars(m[k], env)]

\* executeRequest, lines 990-997: the default headers a request does not set.
WithDefaultHeaders(headers, defaults) ==
    [k \in DOMAIN headers \cup DOMAIN defaults |->
        IF k \in DOMAIN headers THEN headers[k] ELSE defaults[k]]

\* The value a prompt is answered with.
PromptAnswer == <<"7">>

\* executeRequest, lines 1020-1038: the loop over the URL's path variables. A
\* variable comes from the path parameters, else from a prompt unless
\* --no-interactive; the loop returns at the first error, the prompts before
\* it made.
RECURSIVE PathVarLoop(_, _, _, _, _)
PathVarLoop(todo, req, resolved, prompts, promptOk) ==
    IF todo = <<>> THEN [vars |-> resolved, prompts |-> prompts, err |-> "none"]
    ELSE IF Head(todo) \in DOMAIN req.PathParams
    THEN PathVarLoop(Tail(todo), req,
                     MapSet(resolved, Head(todo), req.PathParams[Head(todo)]),
                     prompts, promptOk)
    ELSE IF ~req.NoInteractive
    THEN IF promptOk
         THEN PathVarLoop(Tail(todo), req, MapSet(resolved, Head(todo), PromptAnswer),
                          prompts + 1, promptOk)
         ELSE [vars |-> resolved, prompts |-> prompts + 1, err |-> "prompt failed"]
    ELSE [vars |-> resolved, prompts |-> prompts,
          err |-> "missing required template variable"]

\* n times the same I/O operation.
Times(n, op) == [i \in 1..n |-> op]

\* storage.NewSavedCall, lines 18-28, for the ParsedRequest as it stands.
NewSavedCall(req) ==
    [Name |-> req.Save, Method |-> req.Method, URL |-> req.URL,
     Headers |-> req.Headers, QueryParams |-> req.QueryParams, Body |-> req.Body]

\* handleAuthCommand, lines 1282-1325: the flag under its long name, else
\* under its short name, else empty.
FlagOr(flags, long, short) ==
    IF long \in DOMAIN flags THEN flags[long]
    ELSE IF short \in DOMAIN flags THEN flags[short]
    ELSE <<>>

\* handleAuthCommand, lines 1270-1329: the preset "auth add" builds, or the
\* error it returns before Manager.Add.
AuthAddPreset(cmd) ==
    LET f == cmd.Flags
        basic == Preset(cmd.Name, cmd.Type, FlagOr(f, <<"u", "s", "e", "r", "n", "a", "m", "e">>, <<"u">>),
                        FlagOr(f, <<"p", "a", "s", "s", "w", "o", "r", "d">>, <<"p">>), <<>>, <<>>, <<>>, <<>>, <<>>)
        bearer == Preset(cmd.Name, cmd.Type, <<>>, <<>>, FlagOr(f, <<"t", "o", "k", "e", "n">>, <<"t">>),
                         <<>>, <<>>, <<>>, <<>>)
        custom == Preset(cmd.Name, cmd.Type, <<>>, <<>>, <<>>, FlagOr(f, <<"h", "e", "a", "d", "e", "r">>, <<"h">>),
                         FlagOr(f, <<"p", "r", "e", "f", "i", "x">>, <<"p", "r", "e", "f", "i", "x">>), FlagOr(f, <<"v", "a", "l", "u", "e">>, <<"v">>), <<>>)
    IN  IF cmd.Type = <<>> \/ cmd.Name = <<>>
        THEN [preset |-> Nil, err |-> "auth add requires type and name"]
        ELSE IF cmd.Type = S_basic
        THEN IF basic.Username = <<>>
             THEN [preset |-> Nil, err |-> "basic auth requires --username or -u"]
             ELSE [preset |-> basic, err |-> "none"]
        ELSE IF cmd.Type = S_bearer
        THEN IF bearer.Token = <<>>
             THEN [preset |-> Nil, err |-> "bearer auth requires --token or -t"]
             ELSE [preset |-> bearer, err |-> "none"]
        ELSE IF cmd.Type = S_custom
        THEN IF custom.Header = <<>>
             THEN [preset |-> Nil, err |-> "custom auth requires --header or -h"]
             ELSE IF custom.Value = <<>>
             THEN [preset |-> Nil, err |-> "custom auth requires --value or -v"]
             ELSE [preset |-> custom, err |-> "none"]
        ELSE [preset |-> Nil, err |-> "unknown auth type"]

\* A dispatch that hands a failed parse to listCalls.
RunDispatchListsOnError(result, err) ==
    IF err # "none" THEN "list" ELSE "exit"

\* Run, lines 956-984: the handler a parse outcome goes to; "exit" on a parse
\* error, "unknown" where Run falls through to "unknown command".
RunDispatch(result, err) ==
    IF err # "none" THEN "exit"
    ELSE IF result.kind = "request" THEN "request"
    ELSE IF result.kind = "recall" THEN "recall"
    ELSE IF result.kind = "auth" THEN "auth"
    ELSE IF result.value \in {S_version, S_help} THEN "print"
    ELSE IF result.value = S_list THEN "list"
    ELSE IF Len(result.value) > 7 /\ SubSeq(result.value, 1, 7) = S_delete_colon
    THEN "delete"
    ELSE "unknown"

\* The number of arguments after the fixed head of a command line.
MaxAppExtra == 2

\* The command lines main is started with.
AppURLs == { <<"u">>, <<"h", "/", "{", "i", "d", "}">>, <<"$", "{", "a", "}">> }
AppRequestHeads ==
    { <<<<"g", "e", "t">>, u>> \o save : u \in AppURLs, save \in {<<>>, <<S_save, <<"n">>>>} }
AppRequestPool ==
    { <<"n">>, S_dry, <<"-", "-", "a", "u", "t", "h", "=", "p">>, <<"i", "d", "=", "7">>,
      S_no_interactive, <<"-", "d", "$", "{", "a", "}">> }
AppRecallPool ==
    { <<"b", "=", "1">>, <<"b", "=", "2">>, <<"-", "H", "k", ":", "v">>,
      <<"i", "d", "=", "9">> }
AppAuthAddPool == { <<"t", "o", "k", "e", "n", "=", "a", "b", "c">>, <<"-", "-", "t", "o", "k", "e", "n">>, <<"a", "b", "c">> }
AppVectors ==
    OtherVectors
    \cup { h \o t : h \in AppRequestHeads, t \in SeqsUpTo(AppRequestPool, MaxAppExtra) }
    \cup { RecallHead \o t : t \in SeqsUpTo(AppRecallPool, MaxAppExtra) }
    \cup { AuthAddHead \o t : t \in SeqsUpTo(AppAuthAddPool, MaxAppExtra) }
    \cup { <<<<"g", "e", "t">>, <<"u">>, S_save>>,
           <<<<"g", "e", "t">>, <<"u">>, S_save, S_dry>>,
           <<<<"g", "e", "t">>, <<"u">>, <<"-", "H", "k", ":", "v">>>>,
           <<<<"g", "e", "t">>, <<"u">>, <<"-", "H", "K", ":", "v">>>>,
           <<S_delete, <<"c">>>>, <<S_delete, <<>>>>, <<S_auth, S_remove, <<"p">>>>,
           <<S_auth, S_add, S_basic, <<"q">>, <<"u", "=", "j", "o", "h", "n">>>>,
           <<S_auth, S_add, S_custom, <<"q">>, <<"h", "=", "X", "-", "K", "e", "y">>, <<"v", "=", "a", "b", "c">>>>,
           <<S_auth, S_add, <<"d", "i", "g", "e", "s", "t">>, <<"q">>>> }

\* The files main may find: saved calls, the auth file, the workspace's
\* .gosh.yaml and .env, the global config.
StoredCalls ==
    { EmptyMap,
      [n \in {<<"c">>} |-> [Name |-> <<"c">>, Method |-> <<"G", "E", "T">>, URL |-> <<"h", "/", "{", "i", "d", "}">>,
                        Headers |-> EmptyMap, QueryParams |-> EmptyMap,
                        Body |-> <<"b", "0">>]] }
File(state, content) == [state |-> state, content |-> content]
AuthFiles ==
    { File("absent", EmptyMap), File("corrupt", EmptyMap),
      File("present",
           [n \in {<<"p">>} |-> Preset(<<"p">>, S_bearer, <<>>, <<>>, <<"t", "k">>,
                                       <<>>, <<>>, <<>>, <<>>)]) }
WorkspaceConfigFiles ==
    { File("absent", EmptyMap), File("corrupt", EmptyMap),
      File("present", [k \in {<<"k">>} |-> <<"d">>]) }
EnvFiles == { File("absent", EmptyMap), File("present", [k \in {<<"a">>} |-> <<"x">>]) }
GlobalConfigFiles == { "absent", "corrupt", "present" }

\* The process as main starts: nothing read yet.
Init ==
    /\ aPc = "detect" /\ aArgs \in AppVectors /\ aErr = "none" /\ aIO = <<>>
    /\ aPresets = EmptyMap /\ aCalls \in StoredCalls /\ aAuthFile \in AuthFiles
    /\ aWorkspace = Nil /\ aReq = Nil /\ aHttpReq = Nil
    /\ TemplateIdle /\ ParserIdle /\ BuilderIdle /\ OthersIdle

\* NewApp, lines 921-924, config.DetectWorkspace: the root is looked for, then
\* .gosh.yaml and .env are read where they exist.
DetectWorkspace ==
    /\ aPc = "detect"
    /\ \E cfg \in WorkspaceConfigFiles, env \in EnvFiles :
          /\ aIO' = aIO \o <<"stat workspace">>
                        \o (IF cfg.state # "absent" THEN <<"read .gosh.yaml">> ELSE <<>>)
                        \o (IF cfg.state # "corrupt" /\ env.state # "absent"
                            THEN <<"read .env">> ELSE <<>>)
          /\ IF cfg.state = "corrupt"
             THEN /\ aPc' = "exit" /\ aErr' = "workspace config error"
                  /\ UNCHANGED aWorkspace
             ELSE /\ aPc' = "global"
                  /\ aWorkspace' =
                        [Env |-> env.content, DefaultHeaders |-> cfg.content]
                  /\ UNCHANGED aErr
    /\ UNCHANGED <<aArgs, aPresets, aCalls, aAuthFile, aReq, aHttpReq>>
    /\ UNCHANGED <<tvars, pvars, bvars, xvars>>

\* NewApp, lines 927-930, config.LoadGlobalConfig.
LoadGlobalConfig ==
    /\ aPc = "global"
    /\ \E file \in GlobalConfigFiles :
          /\ aIO' = aIO \o <<"stat config">>
                        \o (IF file # "absent" THEN <<"read config">> ELSE <<>>)
          /\ IF file = "corrupt"
             THEN aPc' = "exit" /\ aErr' = "global config error"
             ELSE aPc' = "authload" /\ UNCHANGED aErr
    /\ UNCHANGED <<aArgs, aPresets, aCalls, aAuthFile, aWorkspace, aReq, aHttpReq>>
    /\ UNCHANGED <<tvars, pvars, bvars, xvars>>

\* NewApp, lines 936-939, auth.Manager.Load: a missing file is no error.
AuthLoad ==
    /\ aPc = "authload"
    /\ aIO' = aIO \o <<"read auth">>
    /\ IF aAuthFile.state = "corrupt"
       THEN aPc' = "exit" /\ aErr' = "failed to parse auth config" /\ UNCHANGED aPresets
       ELSE /\ aPc' = "run"
            /\ aPresets' = IF aAuthFile.state = "absent" THEN aPresets
                           ELSE aAuthFile.content
            /\ UNCHANGED aErr
    /\ UNCHANGED <<aArgs, aCalls, aAuthFile, aWorkspace, aReq, aHttpReq>>
    /\ UNCHANGED <<tvars, pvars, bvars, xvars>>

\* Run, lines 955-984: the arguments are parsed; a parse error is returned,
\* else the handler of the command is entered.
RunParse ==
    /\ aPc = "run"
    /\ LET r == ParseResult(aArgs)
           d == RunDispatch(r.req, r.err)
       IN  /\ pArgs' = aArgs /\ pPc' = "done" /\ pReq' = r.req /\ pErr' = r.err
           /\ aPc' = IF d = "unknown" THEN "exit" ELSE d
           /\ aErr' = IF r.err # "none" THEN r.err
                      ELSE IF d = "unknown" THEN "unknown command"
                      ELSE "none"
           /\ aReq' = IF d = "request" THEN r.req ELSE aReq
    /\ UNCHANGED <<aArgs, aIO, aPresets, aCalls, aAuthFile, aWorkspace, aHttpReq>>
    /\ UNCHANGED <<pI, tvars, bvars, xvars>>

\* executeRecall, lines 1133-1155: the call is loaded, the body replaced by an
\* override value (the one the range over the map yields last), the headers
\* merged, and a fresh ParsedRequest made of it.
ExecuteRecall ==
    /\ aPc = "recall"
    /\ aIO' = aIO \o <<"read store">>
    /\ IF pReq.Name \notin DOMAIN aCalls
       THEN aPc' = "exit" /\ aErr' = "call not found" /\ UNCHANGED aReq
       ELSE LET call == aCalls[pReq.Name]
                headers == [k \in DOMAIN call.Headers \cup DOMAIN pReq.Headers |->
                               IF k \in DOMAIN pReq.Headers THEN pReq.Headers[k]
                               ELSE call.Headers[k]]
            IN  /\ \E body \in IF pReq.ParameterOverride = EmptyMap THEN {call.Body}
                               ELSE {pReq.ParameterOverride[k] : k \in DOMAIN pReq.ParameterOverride} :
                      aReq' = [NewParsedRequest(call.Method, call.URL) EXCEPT
                                  !.Headers = headers,
                                  !.QueryParams = call.QueryParams,
                                  !.Body = body]
                /\ aPc' = "request"
                /\ UNCHANGED aErr
    /\ UNCHANGED <<aArgs, aPresets, aCalls, aAuthFile, aWorkspace, aHttpReq>>
    /\ UNCHANGED <<tvars, pvars, bvars, xvars>>

\* A dry run sent like any other request.
AfterPrepareSends(req) == "send"

\* executeRequest, lines 1080-1100: a dry run goes to the store, any other
\* request to the executor.
AfterPrepare(req) == IF req.Dry THEN "dry" ELSE "send"

\* executeRequest, lines 989-1097, up to the store or the executor: default
\* headers, the body from a piped stdin, environment variables, path
\* variables with their prompts, Resolve, the auth preset, and the --dry
\* check.
ExecutePrepare ==
    /\ aPc = "request"
    /\ \E stdin \in {"terminal", "empty", "data"}, promptOk \in BOOLEAN :
          LET env == aWorkspace.Env
              r1 == [aReq EXCEPT !.Headers = WithDefaultHeaders(@, aWorkspace.DefaultHeaders)]
              readsStdin == r1.HasStdinBody \/ stdin # "terminal"
              r2 == IF readsStdin /\ stdin = "data"
                    THEN [r1 EXCEPT !.Body = <<"i", "n">>, !.HasStdinBody = TRUE]
                    ELSE r1
              r3 == [r2 EXCEPT !.URL = SubstituteEnvVars(@, env),
                               !.Headers = SubstituteEnvVarsInMap(@, env),
                               !.Body = SubstituteEnvVars(@, env)]
              loop == PathVarLoop(ExtractPathVars(r3.URL), r3, EmptyMap, 0, promptOk)
              res == Resolve(r3.URL, loop.vars, env)
              io == aIO \o (IF readsStdin THEN <<"read stdin">> ELSE <<>>)
                        \o Times(loop.prompts, "prompt")
              fail(e) == aPc' = "exit" /\ aErr' = e /\ UNCHANGED aHttpReq
          IN  /\ aReq' = r3
              /\ aIO' = io
              /\ IF loop.err # "none" THEN fail(loop.err)
                 ELSE IF res.err # NoErr THEN fail(res.err[1])
                 ELSE IF r3.Auth # <<>> /\ r3.Auth \notin DOMAIN aPresets
                 THEN fail("authentication failed")
                 ELSE IF r3.Dry /\ r3.Save = <<>>
                 THEN fail("--dry requires --save to specify a name")
                 ELSE /\ aHttpReq' =
                            [Method |-> r3.Method, URL |-> res.result,
                             Headers |-> r3.Headers, QueryParams |-> r3.QueryParams,
                             Body |-> r3.Body,
                             Auth |-> IF r3.Auth # <<>> THEN aPresets[r3.Auth] ELSE Nil,
                             Sent |-> Nil]
                      /\ aPc' = AfterPrepare(r3)
                      /\ UNCHANGED aErr
    /\ UNCHANGED <<aArgs, aPresets, aCalls, aAuthFile, aWorkspace>>
    /\ UNCHANGED <<tvars, pvars, bvars, xvars>>

\* storage.Manager.Save, lines 22-40, of the call executeRequest makes at lines
\* 1084-1092 and 1108-1116: the calls directory is made and the file written,
\* or the error returned.
StorageSave ==
    /\ aIO' = aIO \o <<"mkdir store", "write store">>
    /\ \E ok \in BOOLEAN :
          IF ok
          THEN /\ aCalls' = MapSet(aCalls, aReq.Save, NewSavedCall(aReq))
               /\ UNCHANGED aErr
          ELSE /\ aErr' = "save failed"
               /\ UNCHANGED aCalls
    /\ aPc' = "exit"
    /\ UNCHANGED <<aArgs, aPresets, aAuthFile, aWorkspace, aReq, aHttpReq>>
    /\ UNCHANGED <<tvars, pvars, bvars, xvars>>

\* executeRequest, lines 1080-1097: a dry run saves and sends nothing.
ExecuteDry ==
    /\ aPc = "dry"
    /\ StorageSave

\* A request saved whether or not its response was received.
AfterSendSavesAnyway(ok, req) == IF req.Save # <<>> THEN "save" ELSE "exit"

\* executeRequest, lines 1100-1108: an error of Execute is returned at once;
\* the save asked for comes after the response.
AfterSend(ok, req) == IF ok /\ req.Save # <<>> THEN "save" ELSE "exit"

\* executeRequest, lines 1100-1104, Executor.Execute: the request is built and,
\* when Build succeeds, sent.
ExecuteSend ==
    /\ aPc = "send"
    /\ LET buildErr == \/ URLParseFails(aHttpReq.URL)
                       \/ /\ aHttpReq.Auth # Nil
                          /\ Apply(aHttpReq.Auth, EmptyMap).err # "none"
       IN  IF buildErr
           THEN aPc' = "exit" /\ aErr' = "request failed" /\ UNCHANGED <<aIO, aHttpReq>>
           ELSE /\ aIO' = aIO \o <<"network">>
                /\ \E h \in HeaderLoopOutcomes(EmptyMap, aHttpReq.Headers,
                                                DOMAIN aHttpReq.Headers) :
                      aHttpReq' = [aHttpReq EXCEPT !.Sent =
                                      IF aHttpReq.Auth # Nil
                                      THEN Apply(aHttpReq.Auth, h).header ELSE h]
                /\ \E ok \in BOOLEAN :
                      /\ aPc' = AfterSend(ok, aReq)
                      /\ IF ok THEN UNCHANGED aErr ELSE aErr' = "request failed"
    /\ UNCHANGED <<aArgs, aPresets, aCalls, aAuthFile, aWorkspace, aReq>>
    /\ UNCHANGED <<tvars, pvars, bvars, xvars>>

\* executeRequest, lines 1107-1127: the save asked for, after the response.
ExecuteSave ==
    /\ aPc = "save"
    /\ StorageSave

\* listCalls, lines 1159-1176, storage.Manager.List.
ListCalls ==
    /\ aPc = "list"
    /\ aIO' = aIO \o <<"mkdir store", "read store">>
    /\ \E ok \in BOOLEAN :
          aErr' = IF ok THEN "none" ELSE "list failed"
    /\ aPc' = "exit"
    /\ UNCHANGED <<aArgs, aPresets, aCalls, aAuthFile, aWorkspace, aReq, aHttpReq>>
    /\ UNCHANGED <<tvars, pvars, bvars, xvars>>

\* deleteCall, lines 1179-1185, storage.Manager.Delete of the name after
\* "delete:".
DeleteCall ==
    /\ aPc = "delete"
    /\ LET name == SubSeq(pReq.value, 8, Len(pReq.value))
       IN  /\ aIO' = aIO \o <<"delete store">>
           /\ IF name \in DOMAIN aCalls
              THEN aCalls' = MapRemove(aCalls, name) /\ UNCHANGED aErr
              ELSE aErr' = "failed to delete call" /\ UNCHANGED aCalls
    /\ aPc' = "exit"
    /\ UNCHANGED <<aArgs, aPresets, aAuthFile, aWorkspace, aReq, aHttpReq>>
    /\ UNCHANGED <<tvars, pvars, bvars, xvars>>

\* printVersion and printHelp, lines 1188-1225.
PrintText ==
    /\ aPc = "print"
    /\ aPc' = "exit"
    /\ UNCHANGED <<aArgs, aErr, aIO, aPresets, aCalls, aAuthFile, aWorkspace, aReq,
                   aHttpReq>>
    /\ UNCHANGED <<tvars, pvars, bvars, xvars>>

\* auth.Manager.Save, lines 49-70, after Add or Remove changed the presets to
\* `presets`: the file is written, or the error returned with the presets in
\* memory changed all the same.
AuthSave(presets) ==
    /\ aPresets' = presets
    /\ aIO' = aIO \o <<"mkdir auth", "write auth">>
    /\ \E ok \in BOOLEAN :
          IF ok THEN aAuthFile' = File("present", presets) /\ UNCHANGED aErr
          ELSE aErr' = "failed to write auth config" /\ UNCHANGED aAuthFile

\* handleAuthCommand, lines 1255-1350.
HandleAuthCommand ==
    /\ aPc = "auth"
    /\ LET cmd == pReq
           fail(e) == aErr' = e /\ UNCHANGED <<aIO, aPresets, aAuthFile>>
       IN  IF cmd.Subcommand = "list"
           THEN UNCHANGED <<aErr, aIO, aPresets, aAuthFile>>
           ELSE IF cmd.Subcommand = "add"
           THEN LET a == AuthAddPreset(cmd)
                IN  IF a.err # "none" THEN fail(a.err)
                    ELSE AuthSave(MapSet(aPresets, cmd.Name, a.preset))
           ELSE IF cmd.Name = <<>> THEN fail("auth remove requires a preset name")
           ELSE IF cmd.Name \notin DOMAIN aPresets THEN fail("auth preset not found")
           ELSE AuthSave(MapRemove(aPresets, cmd.Name))
    /\ aPc' = "exit"
    /\ UNCHANGED <<aArgs, aCalls, aWorkspace, aReq, aHttpReq>>
    /\ UNCHANGED <<tvars, pvars, bvars, xvars>>

Next ==
    \/ DetectWorkspace
    \/ LoadGlobalConfig
    \/ AuthLoad
    \/ RunParse
    \/ ExecuteRecall
    \/ ExecutePrepare
    \/ ExecuteDry
    \/ ExecuteSend
    \/ ExecuteSave
    \/ ListCalls
    \/ DeleteCall
    \/ PrintText
    \/ HandleAuthCommand

Spec == Init /\ [][Next]_vars

-----------------------------------------------------------------------------
(* Properties of Template.Resolve                                          *)

ResolveFinished == tPc \in {"done", "failed"}

BraceFree(s) == \A i \in 1..Len(s) : s[i] \notin {"{", "}"}

\* The {name} placeholders that are not the brace part of a ${NAME} placeholder.
RECURSIVE StandalonePathMatches(_)
StandalonePathMatches(s) ==
    IF s = <<>> THEN <<>>
    ELSE IF Len(s) >= 2 /\ s[1] = "$" /\ s[2] = "{" /\ FirstClose(s, 3) > 3
         THEN StandalonePathMatches(SubSeq(s, FirstClose(s, 3) + 1, Len(s)))
         ELSE IF s[1] = "{" /\ FirstClose(s, 2) > 2
              THEN <<SubSeq(s, 2, FirstClose(s, 2) - 1)>>
                   \o StandalonePathMatches(SubSeq(s, FirstClose(s, 2) + 1, Len(s)))
              ELSE StandalonePathMatches(Tail(s))

\* The text left when every {name} token is cut out.
RECURSIVE OutsideTokens(_)
OutsideTokens(s) ==
    IF s = <<>> THEN <<>>
    ELSE IF s[1] = "{" /\ FirstClose(s, 2) > 2
         THEN OutsideTokens(SubSeq(s, FirstClose(s, 2) + 1, Len(s)))
         ELSE <<s[1]>> \o OutsideTokens(Tail(s))

MissingEnv == SelectSeq(ExtractEnvVars(tText), LAMBDA n : n \notin DOMAIN tEnvVars)
MissingPath == {n \in Range(PathMatches(tText)) : n \notin DOMAIN tPathVars}

\* C1 (as claimed): when every ${NAME} placeholder has an env entry and every
\* {name} placeholder has a path entry, Resolve returns without error; in
\* particular a template of ${NAME} placeholders only resolves with an empty
\* path-var mapping.
C1_ResolvesWhenAllMapped ==
    ( /\ ResolveFinished
      /\ Range(ExtractEnvVars(tText)) \subseteq DOMAIN tEnvVars
      /\ Range(StandalonePathMatches(tText)) \subseteq DOMAIN tPathVars )
    => (tPc = "done" /\ tErr = NoErr)

\* C2: while an env name of the template is absent from the env-var mapping,
\* Resolve never enters its path-variable phase (no path name is extracted,
\* checked or substituted), and when it returns it has failed with the
\* env-variable error naming the first absent name and returned no string.
C2_EnvFailsBeforePath ==
    (tPc # "idle" /\ MissingEnv # <<>>)
    => /\ tPc \in {"env", "failed"}
       /\ tPathAll = <<>> /\ tPathTodo = <<>> /\ tUnresolved = <<>>
       /\ tPc = "failed"
          => /\ tErr = <<"environment variable not found", <<MissingEnv[1]>>>>
             /\ tResult = <<>>

\* C2 witness: Resolve has failed on an absent env name while a path variable
\* of the template is unmapped as well.
C2_Witness ==
    /\ tPc = "failed" /\ tErr[1] = "environment variable not found"
    /\ \E n \in Range(StandalonePathMatches(tText)) :
           n \notin DOMAIN tPathVars /\ BraceFree(n) /\ "$" \notin Range(n)

\* C3 (as claimed): for a template without ${...} whose braces all belong to
\* {name} tokens, Resolve with a path-var mapping whose keys are exactly
\* ExtractPathVars succeeds and returns a string without "{" and "}".
C3_ResolvedHasNoBraces ==
    ( /\ ResolveFinished
      /\ EnvMatches(tText) = <<>>
      /\ BraceFree(OutsideTokens(tText))
      /\ DOMAIN tPathVars = Range(ExtractPathVars(tText)) )
    => (tPc = "done" /\ BraceFree(tResult))

\* C3 (amended): the same, for templates whose token names contain no brace
\* and mappings whose values contain no brace.
C3_ResolvedHasNoBracesAmended ==
    ( /\ ResolveFinished
      /\ EnvMatches(tText) = <<>>
      /\ BraceFree(OutsideTokens(tText))
      /\ \A n \in Range(PathMatches(tText)) : BraceFree(n)
      /\ DOMAIN tPathVars = Range(ExtractPathVars(tText))
      /\ \A n \in DOMAIN tPathVars : BraceFree(tPathVars[n]) )
    => (tPc = "done" /\ BraceFree(tResult))

\* C3 witness: a template with a repeated and a second {name} token resolved
\* with brace-free values for exactly its names.
C3_Witness ==
    /\ tPc = "done"
    /\ EnvMatches(tText) = <<>> /\ BraceFree(OutsideTokens(tText))
    /\ Len(PathMatches(tText)) = 3 /\ Len(ExtractPathVars(tText)) = 2
    /\ \A n \in Range(PathMatches(tText)) : BraceFree(n)
    /\ DOMAIN tPathVars = Range(ExtractPathVars(tText))
    /\ \A n \in DOMAIN tPathVars : BraceFree(tPathVars[n])

\* C4: when every env name resolves and some {name} placeholder has no path
\* entry, Resolve fails with the one missing-variables error, which lists
\* every unmapped name exactly once, and returns no string.
C4_AllMissingPathVarsListed ==
    ( /\ ResolveFinished
      /\ MissingEnv = <<>>
      /\ MissingPath # {} )
    => /\ tPc = "failed"
       /\ tErr[1] = "missing template variables"
       /\ Range(tErr[2]) = MissingPath
       /\ Len(tErr[2]) = Cardinality(MissingPath)
       /\ tResult = <<>>

\* C4 witness: Resolve has failed listing two unmapped path names, after an
\* env substitution succeeded.
C4_Witness ==
    /\ tPc = "failed" /\ tErr[1] = "missing template variables"
    /\ Cardinality(Range(StandalonePathMatches(tText)) \ DOMAIN tPathVars) = 2
    /\ ExtractEnvVars(tText) # <<>>

-----------------------------------------------------------------------------
(* Properties of cli.Parser                                                *)

\* The request loop is about to examine the argument under its cursor.
AtRequestArg == pPc = "request" /\ pI < Len(pArgs)

\* The argument under the cursor.
Cur == Arg(pArgs, pI)

\* An earlier case of the switch of parseRequest takes the argument.
TakenByFlagCase(tok) ==
    \/ tok \in {S_save, S_dry, S_info, S_no_interactive, S_env, S_format, S_auth_flag}
    \/ HasPrefix(tok, S_env_eq) \/ HasPrefix(tok, S_format_eq) \/ HasPrefix(tok, S_auth_eq)
    \/ HasPrefix(tok, S_H) \/ HasPrefix(tok, S_d)

IsQueryToken(tok) == Contains(tok, S_eqeq)
IsPathToken(tok) == Contains(tok, S_eq) /\ ~Contains(tok, S_eqeq) /\ ~HasPrefix(tok, S_dash)

\* The argument under the cursor went to QueryParams split at the first "==",
\* and PathParams was left alone.
PlacedInQuery ==
    /\ pReq' # Nil
    /\ pReq'.QueryParams = MapSet(pReq.QueryParams, SplitN2(Cur, S_eqeq)[1],
                                  SplitN2(Cur, S_eqeq)[2])
    /\ pReq'.PathParams = pReq.PathParams

\* The argument under the cursor went to PathParams split at its "=", and
\* QueryParams was left alone.
PlacedInPath ==
    /\ pReq' # Nil
    /\ pReq'.PathParams = MapSet(pReq.PathParams, SplitN2(Cur, S_eq)[1],
                                 SplitN2(Cur, S_eq)[2])
    /\ pReq'.QueryParams = pReq.QueryParams

\* C5 (as claimed): every argument of a request command that contains "==" is
\* placed in QueryParams and not in PathParams, and every argument with a
\* single "=" that does not start with "-" is placed in PathParams.
C5_TokensPlaced ==
    [][ AtRequestArg =>
          /\ IsQueryToken(Cur) => PlacedInQuery
          /\ IsPathToken(Cur) => PlacedInPath ]_vars

\* C5 (amended): the same for the arguments no flag case takes first: an
\* argument that starts with -H, -d, --env=, --format= or --auth= is that
\* flag's header, body or value even when it contains "==".
C5_TokensPlacedAmended ==
    [][ AtRequestArg =>
          /\ (IsQueryToken(Cur) /\ ~TakenByFlagCase(Cur)) => PlacedInQuery
          /\ IsPathToken(Cur) => PlacedInPath ]_vars

\* C5 witness: a parsed request holding both a query and a path parameter.
C5_Witness ==
    /\ pPc = "done" /\ pErr = "none" /\ pReq # Nil /\ pReq.kind = "request"
    /\ pReq.QueryParams # EmptyMap /\ pReq.PathParams # EmptyMap

\* The argument vector with the inline argument under the cursor written as
\* the flag followed by its value.
Separated(flag) ==
    SubSeq(pArgs, 1, pI) \o <<flag, TrimPrefix(Cur, flag \o S_eq)>>
        \o SubSeq(pArgs, pI + 2, Len(pArgs))

\* Both forms of the flag are accepted where the cursor stands and the parse
\* ends in the same ParsedRequest (or the same later error) for both.
BothFormsAgree(flag) ==
    (AtRequestArg /\ HasPrefix(Cur, flag \o S_eq))
    => /\ RequestArg(pReq, pArgs, pI).err = "none"
       /\ RequestArg(pReq, Separated(flag), pI).err = "none"
       /\ RunLoop("request", pReq, pArgs, pI)
            = RunLoop("request", pReq, Separated(flag), pI)

MatchesNoShape(tok) ==
    /\ ~TakenByFlagCase(tok)
    /\ ~Contains(tok, S_eqeq)
    /\ ~(Contains(tok, S_eq) /\ ~HasPrefix(tok, S_dash))

\* C7: an argument after the URL that matches none of the supported shapes
\* makes Parse return the "unexpected argument" error and no ParsedRequest.
C7_UnexpectedArgument ==
    [][ (AtRequestArg /\ MatchesNoShape(Cur))
          => (pPc' = "done" /\ pErr' = "unexpected argument" /\ pReq' = Nil) ]_vars

\* C7 witness: Parse failed on an unexpected argument after it had accepted
\* an earlier one.
C7_Witness ==
    /\ pPc = "done" /\ pErr = "unexpected argument" /\ pReq = Nil /\ pI > 2

\* C8 (as claimed): auth add records in Flags the value that follows a
\* dash-prefixed flag (--token abc, -u john).
C8_DashFlagValueRecorded ==
    ( /\ pPc = "done" /\ pErr = "none" /\ pReq # Nil /\ pReq.kind = "auth"
      /\ pReq.Subcommand = "add"
      /\ Len(pArgs) = 6
      /\ HasPrefix(pArgs[5], S_dash) /\ ~Contains(pArgs[5], S_eq)
      /\ ~HasPrefix(pArgs[6], S_dash) /\ ~Contains(pArgs[6], S_eq) )
    => \E k \in DOMAIN pReq.Flags : pReq.Flags[k] = pArgs[6]

-----------------------------------------------------------------------------
(* Properties of Builder.Build                                              *)

BuildFinished == bPc = "done"

\* Request.Headers has a key that is "Authorization" in some letter case.
ManualAuthorization ==
    \E k \in DOMAIN bReq.Headers : ToLower(k) = ToLower(S_Authorization)

\* The Request carries a basic or a bearer preset.
BasicOrBearerPreset ==
    /\ bReq.Auth # Nil
    /\ ToLower(bReq.Auth.Type) \in {S_basic, S_bearer}

\* The Authorization value a basic or bearer preset stands for.
PresetAuthorization ==
    IF ToLower(bReq.Auth.Type) = S_basic
    THEN S_BasicSp \o Base64(bReq.Auth.Username \o S_colon \o bReq.Auth.Password)
    ELSE S_BearerSp \o bReq.Auth.Token

\* C10: a built request whose Request has a manual Authorization header, in
\* any letter case, and a basic or bearer preset carries exactly one
\* Authorization value, the preset's: no header key other than the canonical
\* one spells "authorization", and the canonical key holds the preset's value
\* alone.
C10_PresetOverridesManualAuthorization ==
    (BuildFinished /\ BasicOrBearerPreset /\ ManualAuthorization)
        => /\ \A k \in DOMAIN bHeader :
                 ToLower(k) = ToLower(S_Authorization) => k = S_Authorization
           /\ S_Authorization \in DOMAIN bHeader
           /\ bHeader[S_Authorization] = <<PresetAuthorization>>

\* A built request whose Request spelled the header in two letter cases and
\* carried a preset, the header map holding a value no manual header had.
C10_Witness ==
    /\ BuildFinished /\ BasicOrBearerPreset
    /\ Cardinality({k \in DOMAIN bReq.Headers :
                       ToLower(k) = ToLower(S_Authorization)}) >= 2
    /\ S_Authorization \in DOMAIN bHeader
    /\ \A k \in DOMAIN bReq.Headers : bHeader[S_Authorization] # <<bReq.Headers[k]>>

-----------------------------------------------------------------------------
(* Properties of main: NewApp, then Run                                     *)

\* Run has parsed the arguments and Parse returned an error.
ParseFailed == aPc # "off" /\ pPc = "done" /\ pErr # "none"

\* The operations NewApp performs before Run is called.
NewAppReads ==
    {"stat workspace", "read .gosh.yaml", "read .env", "stat config", "read config",
     "read auth"}

\* C9 as stated: when the arguments fail to parse, the error is returned with
\* no I/O done at all: no workspace, config or store file has been read or
\* written and no request sent.
C9_ParseErrorBeforeAnyIO ==
    ParseFailed => aIO = <<>>

\* C9: when the arguments fail to parse, Run returns the parse error itself and
\* stops; the I/O done by then is NewApp's reading of the workspace, the
\* global config and the auth file, and from the failed parse on no saved
\* call, auth preset or auth file changes and no further I/O (no store access,
\* no write, no network request) is done.
C9_ParseErrorBeforeAnyChange ==
    /\ [](ParseFailed => /\ aPc = "exit" /\ aErr = pErr
                         /\ \A i \in 1..Len(aIO) : aIO[i] \in NewAppReads)
    /\ [][ParseFailed' => UNCHANGED <<aIO, aCalls, aPresets, aAuthFile>>]_vars

\* A command line whose flag lacks its value has failed to parse, with a
\* saved call in the store, presets loaded, and NewApp's reads done.
C9_Witness ==
    /\ ParseFailed /\ aPc = "exit"
    /\ Len(aArgs) >= 3
    /\ aCalls # EmptyMap /\ aPresets # EmptyMap
    /\ "read auth" \in Range(aIO) /\ "read .gosh.yaml" \in Range(aIO)

-----------------------------------------------------------------------------
(* Properties of Executor.Execute                                           *)

\* C11: in every interleaving of the Execute calls running on one Executor,
\* a call that has returned has returned a Response or error that Execute
\* run alone on the call's Request can return, and the call's Request is one
\* of the Requests handed in, unchanged.
C11_ConcurrentExecuteIndependent ==
    \A c \in DOMAIN eCalls :
        /\ eCalls[c].req \in ExecRequests
        /\ eCalls[c].pc = "done"
              => Executed(eCalls[c].resp, eCalls[c].err) \in ExecuteAlone(eCalls[c].req)

\* Two calls with different Requests have both returned a Response, each
\* having dialled its own connection: they were in flight at the same time.
C11_Witness ==
    /\ eCalls # <<>>
    /\ eCalls[1].pc = "done" /\ eCalls[2].pc = "done"
    /\ eCalls[1].err = "none" /\ eCalls[2].err = "none"
    /\ eCalls[1].req # eCalls[2].req
    /\ eCalls[1].resp # eCalls[2].resp
    /\ eIdle = 2

-----------------------------------------------------------------------------
(* Properties of storage.Manager                                            *)

\* Load has just returned for the name of the call the Save before it stored.
LoadAfterSave ==
    /\ sLast # Nil /\ sLast.op = "Load"
    /\ sPrevSave # Nil /\ sLast.name = sPrevSave.Name

C13_DeletedStaysGone ==
    /\ \A n \in sDeleted : ~ExistsOn(sFS, n)
    /\ (sLast # Nil /\ sLast.op = "Delete" /\ ~sLast.found) => sLast.err # "none"

\* The records a List returned stand one for one for the names saved and not
\* deleted since.
ListedNames == { sLast.calls[i].Name : i \in 1..Len(sLast.calls) }

\* C14: List returns without error exactly one record for each name saved and
\* not deleted since, and an empty list when there is none.
C14_ListIsTheSavedCalls ==
    (sLast # Nil /\ sLast.op = "List") =>
        /\ sLast.err = "none"
        /\ ListedNames = sSaved
        /\ Len(sLast.calls) = Cardinality(sSaved)

\* The files directly inside the calls directory that end in .yaml and do not
\* decode.
UndecodableFiles(fs) ==
    { p \in DOMAIN fs : /\ Len(p) = Len(CallsDir) + 1
                        /\ SubSeq(p, 1, Len(CallsDir)) = CallsDir
                        /\ fs[p].kind = "file"
                        /\ Ext(p[Len(p)]) = <<".", "y", "a", "m", "l">>
                        /\ ~IsYAML(fs[p].data) }

\* C21: a List over a store with a record that cannot be decoded, and a Load
\* of such a record, return an error and not a successful result.
C21_NoFailureSwallowed ==
    /\ (sLast # Nil /\ sLast.op = "List" /\ UndecodableFiles(sFS) # {})
          => sLast.err # "none"
    /\ (sLast # Nil /\ sLast.op = "Load" /\ GetCallPath(sLast.name) \in UndecodableFiles(sFS))
          => sLast.err # "none" /\ sLast.calls = <<>>

\* The path names a file directly inside .gosh/calls.
InsideCallsDir(path) ==
    /\ Len(path) = Len(CallsDir) + 1
    /\ SubSeq(path, 1, Len(CallsDir)) = CallsDir

\* C30: every file of the tree lies directly inside .gosh/calls, and the
\* file a Save has written, a Load has read, a Delete has removed or an
\* Exists has found lies directly inside .gosh/calls.
C30_StoreStaysInCallsDir ==
    /\ \A p \in DOMAIN sFS : sFS[p].kind = "file" => InsideCallsDir(p)
    /\ (/\ sLast # Nil
        /\ sLast.op \in {"Save", "Load", "Delete", "Exists"}
        /\ sLast.err = "none"
        /\ sLast.op = "Exists" => sLast.found)
          => InsideCallsDir(GetCallPath(sLast.name))

-----------------------------------------------------------------------------
(* Properties of auth.Manager                                               *)

\* Manager j, new on the workspace, has just loaded, and Manager i, whose
\* calls that write all returned nil, is the one that wrote the file last.
NewManagerLoaded(i, j) ==
    /\ i # j
    /\ mLast # Nil /\ mLast.mgr = j /\ mLast.op = "Load" /\ mLast.fresh
    /\ mMgr[i].allOk /\ mFile.by = i

\* C15: a new Manager that loads after the Add and Remove calls of another
\* Manager, all of which returned nil, loads without error and holds the
\* same presets, name by name and field by field, as that Manager.
C15_NewManagerLoadsSamePresets ==
    \A i, j \in DOMAIN mMgr :
        NewManagerLoaded(i, j) =>
            /\ mLast.err = "none"
            /\ mMgr[j].presets = mMgr[i].presets

\* A new Manager has loaded the two presets another Manager holds after its
\* Adds, one of them a token.
C15_Witness ==
    /\ mMgr # <<>>
    /\ NewManagerLoaded(1, 2)
    /\ DOMAIN mMgr[1].presets = {<<"a">>, <<"b">>}
    /\ mMgr[1].presets[<<"a">>].Token = <<"t", "2">>
    /\ mMgr[2].presets = mMgr[1].presets

\* C16: whenever the auth file is there after a Manager's Add, Remove or Save
\* has returned, its permission bits are 0600.
C16_AuthFileIsOwnerOnly ==
    (mLast # Nil /\ mLast.op \in {"Add", "Remove", "Save"} /\ mFile.exists)
        => mFile.mode = "0600"

\* The presets a Manager made now on the workspace would hold after Load.
FilePresets(file) ==
    IF file.exists /\ file.valid THEN LoadedPresets(file.data, EmptyMap) ELSE EmptyMap

\* The step is an Add or Remove of Manager i whose write failed.
WriteFailedIn(i) ==
    /\ mLast' # Nil /\ mLast'.mgr = i
    /\ mLast'.op \in {"Add", "Remove"}
    /\ mLast'.err = "failed to write auth config"

\* The presets of Manager i after the step are those before it with one
\* preset added or replaced (Add) or one name removed (Remove).
MutationKept(i) ==
    IF mLast'.op = "Add"
    THEN \E p \in MgrPresets : /\ p.Name # <<>> /\ p.Type # <<>>
                               /\ p.Name \in DOMAIN mMgr'[i].presets
                               /\ mMgr'[i].presets[p.Name] = p
                               /\ mMgr'[i].presets = MapSet(mMgr[i].presets, p.Name, p)
    ELSE \E n \in DOMAIN mMgr[i].presets :
             /\ n \notin DOMAIN mMgr'[i].presets
             /\ mMgr'[i].presets = MapRemove(mMgr[i].presets, n)

-----------------------------------------------------------------------------
(* Properties of findWorkspaceRoot                                          *)

\* The directories of the tree that contain a marker, and the nearest of a
\* set of directories to the start directory.
DirsWith(marker) == {d \in 1..Len(wTree) : marker \in wTree[d]}
Nearest(dirs) == CHOOSE d \in dirs : \A e \in dirs : e <= d

\* C20: findWorkspaceRoot returns the nearest directory with .gosh.yaml; if
\* no directory up to the filesystem root has one, the nearest directory with
\* .git; and if there is no marker at all, the start directory.
C20_GoshYamlThenGitThenCurrent ==
    wPc = "done" =>
        wRet = IF DirsWith(".gosh.yaml") # {} THEN Nearest(DirsWith(".gosh.yaml"))
               ELSE IF DirsWith(".git") # {} THEN Nearest(DirsWith(".git"))
               ELSE Len(wTree)

-----------------------------------------------------------------------------
(* Properties of recall, --dry and environment placeholders                 *)

\* A saved URL with each of its {key} placeholders replaced by the override
\* value of that key.
RECURSIVE WithOverrides(_, _, _)
WithOverrides(url, keys, override) ==
    IF keys = <<>> THEN url
    ELSE WithOverrides(ReplaceAll(url, PathPlaceholder(Head(keys)), override[Head(keys)]),
                       Tail(keys), override)

\* A recall of a saved call with an override for every placeholder of its URL
\* has got as far as the request it executes.
RecallWithOverride ==
    /\ pPc = "done" /\ pErr = "none" /\ pReq # Nil /\ pReq.kind = "recall"
    /\ pReq.Name \in DOMAIN aCalls
    /\ ExtractPathVars(aCalls[pReq.Name].URL) # <<>>
    /\ Range(ExtractPathVars(aCalls[pReq.Name].URL)) \subseteq DOMAIN pReq.ParameterOverride
    /\ aPc \in {"send", "dry"}

\* C17: a recall with key=value executes the saved request with {key} in the
\* saved URL replaced by value, and the saved method, headers, query
\* parameters and body as stored.
C17_RecallOverrideSetsParameter ==
    RecallWithOverride =>
        LET call == aCalls[pReq.Name]
        IN  /\ aHttpReq.URL = WithOverrides(call.URL, ExtractPathVars(call.URL),
                                            pReq.ParameterOverride)
            /\ aHttpReq.Method = call.Method
            /\ aHttpReq.Body = call.Body
            /\ aHttpReq.QueryParams = call.QueryParams
            /\ \A k \in DOMAIN call.Headers \ DOMAIN pReq.Headers :
                  k \in DOMAIN aHttpReq.Headers /\ aHttpReq.Headers[k] = call.Headers[k]

\* A request command has been parsed with its --dry option set.
DryRequested ==
    /\ pPc = "done" /\ pErr = "none" /\ pReq # Nil /\ pReq.kind = "request"
    /\ pReq.Dry

EnvNamesOf(req) ==
    Range(EnvMatches(req.URL)) \cup Range(EnvMatches(req.Body))
    \cup UNION { Range(EnvMatches(req.Headers[k])) : k \in DOMAIN req.Headers }

\* A request command has been parsed whose URL, header values or body hold a
\* ${NAME} the workspace environment does not define.
UndefinedPlaceholder ==
    /\ pPc = "done" /\ pErr = "none" /\ pReq # Nil /\ pReq.kind = "request"
    /\ aWorkspace # Nil
    /\ EnvNamesOf(pReq) \ DOMAIN aWorkspace.Env # {}

\* C19: a request with a ${NAME} placeholder the environment does not define
\* is never sent and never saved, and returns an error.
C19_UndefinedPlaceholderFails ==
    UndefinedPlaceholder =>
        /\ "network" \notin Range(aIO)
        /\ "write store" \notin Range(aIO)
        /\ aPc = "exit" => aErr # "none"

\* A request command has been parsed without the --dry option.
NonDryRequested ==
    /\ pPc = "done" /\ pErr = "none" /\ pReq # Nil /\ pReq.kind = "request"
    /\ ~pReq.Dry

\* The step of the run at which the store was written, or 0.
StoreWrittenAt ==
    IF \E j \in 1..Len(aIO) : aIO[j] = "write store"
    THEN CHOOSE j \in 1..Len(aIO) : aIO[j] = "write store" /\ \A k \in 1..(j - 1) : aIO[k] # "write store"
    ELSE 0

\* C29: in the run of a request without --dry, the store is written only
\* after the request went over the network and its response was received: a
\* run that failed at a step before or at the send has written no call, and
\* the stored calls change in no step but the save after the response.
C29_SaveOnlyAfterResponse ==
    /\ [](NonDryRequested =>
            /\ (aErr \notin {"none", "save failed"}) => StoreWrittenAt = 0
            /\ StoreWrittenAt # 0 =>
                  \E i \in 1..(StoreWrittenAt - 1) : aIO[i] = "network")
    /\ [][NonDryRequested /\ aCalls' # aCalls => aPc = "save" /\ aErr = "none"]_vars

\* A request given --save was sent and failed in transport, and the run has
\* ended with nothing written to the store.
C29_Witness ==
    /\ NonDryRequested /\ pReq.Save # <<>>
    /\ aPc = "exit" /\ aErr = "request failed"
    /\ \E i \in 1..Len(aIO) : aIO[i] = "network"
    /\ StoreWrittenAt = 0

\* A request command with headers has been parsed and the request built
\* from it has been handed to the transport.
SentWithHeaders ==
    /\ pPc = "done" /\ pErr = "none" /\ pReq # Nil /\ pReq.kind = "request"
    /\ DOMAIN pReq.Headers # {}
    /\ aHttpReq # Nil /\ aHttpReq.Sent # Nil

\* C25: the request sent carries, for every header name given on the command
\* line, the command-line value, whatever the letter case of a default header
\* of the same name; a default header is sent for the names the command line
\* did not supply.
C25_CommandLineHeaderWins ==
    SentWithHeaders =>
        /\ \A k \in DOMAIN pReq.Headers :
              /\ CanonicalMIMEHeaderKey(k) \in DOMAIN aHttpReq.Sent
              /\ aHttpReq.Sent[CanonicalMIMEHeaderKey(k)]
                    = <<SubstituteEnvVars(pReq.Headers[k], aWorkspace.Env)>>
        /\ \A d \in DOMAIN aWorkspace.DefaultHeaders :
              (\A k \in DOMAIN pReq.Headers :
                    CanonicalMIMEHeaderKey(k) # CanonicalMIMEHeaderKey(d))
                => /\ CanonicalMIMEHeaderKey(d) \in DOMAIN aHttpReq.Sent
                   /\ aHttpReq.Sent[CanonicalMIMEHeaderKey(d)]
                         = <<SubstituteEnvVars(aWorkspace.DefaultHeaders[d], aWorkspace.Env)>>

-----------------------------------------------------------------------------
(* Properties of the Extract functions and of the passes of Resolve         *)

\* The index of the first occurrence of a name among the matches.
FirstIndex(matches, name) ==
    CHOOSE i \in 1..Len(matches) :
        matches[i] = name /\ \A j \in 1..(i - 1) : matches[j] # name

\* names holds every name of matches exactly once, in the order of the first
\* occurrences.
DistinctInFirstOrder(names, matches) ==
    /\ \A i, j \in 1..Len(names) : i # j => names[i] # names[j]
    /\ Range(names) = Range(matches)
    /\ \A i, j \in 1..Len(names) :
          i < j => FirstIndex(matches, names[i]) < FirstIndex(matches, names[j])

\* C22: ExtractPathVars and ExtractEnvVars return every placeholder name of
\* the template exactly once, in the order of first occurrence, also where
\* Resolve calls them, and no step changes the template's text.
C22_ExtractDistinctInFirstOrder ==
    /\ [](/\ DistinctInFirstOrder(ExtractPathVars(tText), PathMatches(tText))
          /\ DistinctInFirstOrder(ExtractEnvVars(tText), EnvMatches(tText))
          /\ tPc = "check" => DistinctInFirstOrder(tPathAll, PathMatches(tText)))
    /\ [][tText' = tText]_vars

\* Resolve has extracted the two names of a template of three {name} tokens,
\* the first of which occurs again after the second.
C22_Witness ==
    /\ tPc = "check"
    /\ Len(PathMatches(tText)) = 3
    /\ PathMatches(tText)[1] = PathMatches(tText)[3]
    /\ PathMatches(tText)[1] # PathMatches(tText)[2]
    /\ tPathAll = <<PathMatches(tText)[1], PathMatches(tText)[2]>>

\* The text with every token replaced by its value in one pass from left to
\* right: a ${NAME} token by the env value, a {name} token by the path value,
\* a token without a value kept, and no inserted value looked at again.
RECURSIVE SinglePass(_, _, _)
SinglePass(text, pathVars, envVars) ==
    IF text = <<>> THEN <<>>
    ELSE LET isEnv == Len(text) >= 2 /\ text[1] = "$" /\ text[2] = "{"
             brace == IF isEnv THEN 2 ELSE 1
             j == IF text[brace] = "{" THEN FirstClose(text, brace + 1) ELSE 0
         IN  IF j <= brace + 1
             THEN <<text[1]>> \o SinglePass(Tail(text), pathVars, envVars)
             ELSE LET name == SubSeq(text, brace + 1, j - 1)
                      values == IF isEnv THEN envVars ELSE pathVars
                  IN  (IF name \in DOMAIN values THEN values[name] ELSE SubSeq(text, 1, j))
                      \o SinglePass(SubSeq(text, j + 1, Len(text)), pathVars, envVars)

\* C28: the string Resolve returns is the template with each placeholder
\* replaced once by its value, the values copied verbatim and never scanned
\* or substituted again.
C28_ResolveIsSinglePass ==
    tPc = "done" => tResult = SinglePass(tText, tPathVars, tEnvVars)

-----------------------------------------------------------------------------
(* Properties of the parser's commands                                      *)

\* The methods of the enumeration.
EnumeratedMethods ==
    { <<"G", "E", "T">>, <<"P", "O", "S", "T">>, <<"P", "U", "T">>, <<"D", "E", "L", "E", "T", "E">>, <<"P", "A", "T", "C", "H">>, <<"H", "E", "A", "D">>, <<"O", "P", "T", "I", "O", "N", "S">>, <<"T", "R", "A", "C", "E">>,
      <<"C", "O", "N", "N", "E", "C", "T">> }

\* C26: the vector <method> <url>, for each method of the enumeration in any
\* letter case, parses without error to a ParsedRequest with the upper-cased
\* method and the second argument as its URL.
C26_EveryMethodParses ==
    (pPc = "done" /\ Len(pArgs) = 2 /\ ToUpper(pArgs[1]) \in EnumeratedMethods)
    => /\ pErr = "none"
       /\ pReq # Nil /\ pReq.kind = "request"
       /\ pReq.Method = ToUpper(pArgs[1])
       /\ pReq.URL = pArgs[2]

\* The part of a token that names what it sets: the text before its first
\* "=" or ":", or the whole token.
KeyOf(tok) ==
    LET e == Index(tok, <<"=">>)
        c == Index(tok, <<":">>)
        cut == IF e = 0 THEN c ELSE IF c = 0 THEN e ELSE IF e < c THEN e ELSE c
    IN  IF cut = 0 THEN tok ELSE SubSeq(tok, 1, cut - 1)

\* No two tokens of the vector set the same thing, so that none is replaced
\* by a later one.
NoRepeatedKey(args) ==
    \A i, j \in 1..Len(args) : i # j => KeyOf(args[i]) # KeyOf(args[j])

\* The vector without its i-th token.
WithoutArg(args, i) == SubSeq(args, 1, i - 1) \o SubSeq(args, i + 1, Len(args))

\* C27: when Parse returns a command without error, every token of the
\* vector has contributed to it: the vector without that token does not
\* parse to the same command.
\* The number of leading tokens that select the command: "auth" and its
\* subcommand, or the first token alone.
CommandWords(args) ==
    IF ToLower(args[1]) = <<"a", "u", "t", "h">> THEN 2 ELSE 1

\* The vectors of the commands request, recall, auth add, auth remove, list
\* and delete.
IsListedCommand(args) ==
    /\ Len(args) >= 1
    /\ ToLower(args[1]) \notin { <<"-", "-", "v", "e", "r", "s", "i", "o", "n">>, <<"-", "v">>,
                               <<"-", "-", "h", "e", "l", "p">>, <<"-", "h">> }
    /\ ToLower(args[1]) = <<"a", "u", "t", "h">>
          => /\ Len(args) >= 2
             /\ args[2] \in { <<"a", "d", "d">>, <<"r", "e", "m", "o", "v", "e">>,
                              <<"d", "e", "l", "e", "t", "e">> }

C27_NoTokenDropped ==
    (pPc = "done" /\ pErr = "none" /\ IsListedCommand(pArgs) /\ NoRepeatedKey(pArgs))
    => \A i \in (CommandWords(pArgs) + 1)..Len(pArgs) :
           ParseResult(WithoutArg(pArgs, i)) # ParseResult(pArgs)

-----------------------------------------------------------------------------
(* Properties of two Managers writing at once                               *)

\* Both Managers have loaded, mutated and written.
BothWrote == \A i \in Managers : mMgr[i].pc = "done" /\ mMgr[i].buf # <<>>

====
